---- MODULE Spec2Model ----
(***************************************************************************)
(* Markdown-to-HTML converter: the Document Assembler                      *)
(* (StandardHtmlBuilder), as a state machine.                              *)
(*                                                                         *)
(* Strings are sequences of one-character strings, so that concatenation,  *)
(* prefixes and suffixes of the generated HTML are computed, not assumed.  *)
(* An optional value (Python's None or a str) is a sequence of length 0    *)
(* (None) or 1 (the value).                                                *)
(***************************************************************************)
EXTENDS Integers, Sequences, FiniteSets, TLC

\* ------------------------------------------------------------------ bounds
\* The assembler accepts appends while it holds fewer fragments than this.
MaxFragments == 3
\* parse_lines is given at most this many lines.
MaxLines == 3
\* render_inline is given a text of at most this many pieces.
MaxPieces == 3

\* ------------------------------------------------------- program constants
\* add_heading: `1 <= level <= 6`
MinLevel == 1
MaxLevel == 6

\* ---------------------------------------------------------------- inputs
EmptyStr == << >>
None == << >>
Some(v) == << v >>

\* The texts handed to the assembler: the empty text (allowed everywhere) and
\* a non-empty one; the two differ, so a title captured from one is told from
\* a title captured from the other.
Texts == { EmptyStr, <<"a">> }
\* The title argument of start_document: None (the default) or a text.
Titles == { None } \cup { Some(t) : t \in Texts }
\* The level argument of add_heading: both ends of the valid range, the level
\* next to the title-capturing level 1, and one level beyond each end.
Levels == { MinLevel - 1, MinLevel, MinLevel + 1, MaxLevel, MaxLevel + 1 }

\* ------------------------------------------------------- string literals
UL_OPEN == <<"<", "u", "l", ">", "\n">>
UL_CLOSE == <<"<", "/", "u", "l", ">", "\n">>
LI_OPEN == <<"<", "l", "i", ">">>
LI_CLOSE == <<"<", "/", "l", "i", ">", "\n">>
P_OPEN == <<"<", "p", ">">>
P_CLOSE == <<"<", "/", "p", ">", "\n">>

MSG_NOT_STARTED == "document not started"
MSG_ALREADY_ENDED == "document already ended"
MSG_LEVEL == "heading level must be between 1 and 6"
MSG_LIST_OPEN == "list already open"
MSG_NO_LIST_ITEM == "no open list to add item"
MSG_NO_LIST_END == "no open list to end"

\* str(level) inside an f-string, for a one-digit non-negative level.
DecimalDigits == <<"0", "1", "2", "3", "4", "5", "6", "7", "8", "9">>
IntToStr(n) == << DecimalDigits[n + 1] >>

\* f"<h{level}>{text}</h{level}>\n"
HeadingFragment(text, level) ==
  <<"<", "h">> \o IntToStr(level) \o <<">">> \o text
    \o <<"<", "/", "h">> \o IntToStr(level) \o <<">", "\n">>

\* f"<li>{text}</li>\n"
ListItemFragment(text) == LI_OPEN \o text \o LI_CLOSE

\* f"<p>{text}</p>\n"
ParagraphFragment(text) == P_OPEN \o text \o P_CLOSE

\* "".join(fragments)
RECURSIVE Join(_)
Join(frags) == IF frags = << >> THEN EmptyStr ELSE Head(frags) \o Join(Tail(frags))

\* ------------------------------------------------------- inline renderer
\* The control characters U+0001 and U+0002: each is one character of a string.
SOH == "\\x01"
STX == "\\x02"

\* The placeholders of render_inline.
AST == << SOH, "A", "S", "T", STX >>
TR_OPEN == << SOH, "T", "R", "I", "_", "O", "P", "E", "N", STX >>
TR_CLOSE == << SOH, "T", "R", "I", "_", "C", "L", "O", "S", "E", STX >>
DB_OPEN == << SOH, "B", "_", "O", "P", "E", "N", STX >>
DB_CLOSE == << SOH, "B", "_", "C", "L", "O", "S", "E", STX >>
SG_OPEN == << SOH, "I", "_", "O", "P", "E", "N", STX >>
SG_CLOSE == << SOH, "I", "_", "C", "L", "O", "S", "E", STX >>

\* The tags the placeholders are turned into.
STRONG_EM_OPEN ==
  << "<", "s", "t", "r", "o", "n", "g", ">", "<", "e", "m", ">" >>
STRONG_EM_CLOSE ==
  << "<", "/", "e", "m", ">", "<", "/", "s", "t", "r", "o", "n", "g", ">" >>
STRONG_OPEN == << "<", "s", "t", "r", "o", "n", "g", ">" >>
STRONG_CLOSE == << "<", "/", "s", "t", "r", "o", "n", "g", ">" >>
EM_OPEN == << "<", "e", "m", ">" >>
EM_CLOSE == << "<", "/", "e", "m", ">" >>

\* The entities of _html_escape.
AMP_ENTITY == << "&", "a", "m", "p", ";" >>
LT_ENTITY == << "&", "l", "t", ";" >>
GT_ENTITY == << "&", "g", "t", ";" >>

\* s has p at position i.
StartsAt(s, i, p) ==
  /\ i + Len(p) - 1 <= Len(s)
  /\ SubSeq(s, i, i + Len(p) - 1) = p

\* s.replace(old, new), and re.sub of a pattern that is one literal string:
\* the occurrences of old are taken left to right, without overlap.
RECURSIVE ReplaceFrom(_, _, _, _)
ReplaceFrom(s, i, old, new) ==
  IF i > Len(s) THEN EmptyStr
  ELSE IF StartsAt(s, i, old) THEN new \o ReplaceFrom(s, i + Len(old), old, new)
  ELSE << s[i] >> \o ReplaceFrom(s, i + 1, old, new)
Replace(s, old, new) == ReplaceFrom(s, 1, old, new)

\* A run of n asterisks: the delimiter \*{n} of an emphasis pattern.
Stars(n) == [ k \in 1..n |-> "*" ]

\* Where a match of \*{n}(.+?)\*{n} that opens at i can close: a run of n
\* asterisks after at least one character, none of them a line break ('.'
\* does not match '\n').
ClosingRuns(s, i, n) ==
  { j \in (i + n + 1)..(Len(s) - n + 1) :
      /\ StartsAt(s, j, Stars(n))
      /\ \A k \in (i + n)..(j - 1) : s[k] # "\n" }

\* re.sub(r"\*{n}(.+?)\*{n}", open + r"\1" + close, s): the matches are taken
\* left to right without overlap, each as short as it can be ('+?' is lazy).
RECURSIVE EmphasisFrom(_, _, _, _, _)
EmphasisFrom(s, i, n, open, close) ==
  IF i > Len(s) THEN EmptyStr
  ELSE IF StartsAt(s, i, Stars(n)) /\ ClosingRuns(s, i, n) # {}
    THEN LET j == CHOOSE c \in ClosingRuns(s, i, n) :
                     \A d \in ClosingRuns(s, i, n) : c <= d
         IN  open \o SubSeq(s, i + n, j - 1) \o close
               \o EmphasisFrom(s, j + n, n, open, close)
  ELSE << s[i] >> \o EmphasisFrom(s, i + 1, n, open, close)
Emphasis(s, n, open, close) == EmphasisFrom(s, 1, n, open, close)

\* _html_escape: '&' first, then '<' and '>'.
_html_escape(u) ==
  Replace(Replace(Replace(u, << "&" >>, AMP_ENTITY), << "<" >>, LT_ENTITY),
          << ">" >>, GT_ENTITY)

\* The placeholders replaced by their tags, in the order of the code.
RestoreTags(s) ==
  Replace(Replace(Replace(Replace(Replace(Replace(s,
    TR_OPEN, STRONG_EM_OPEN), TR_CLOSE, STRONG_EM_CLOSE),
    DB_OPEN, STRONG_OPEN), DB_CLOSE, STRONG_CLOSE),
    SG_OPEN, EM_OPEN), SG_CLOSE, EM_CLOSE)

\* render_inline that leaves the backslash out and the asterisk to the
\* emphasis passes.
render_inline_unprotected(text) ==
  IF text = EmptyStr THEN EmptyStr
  ELSE
    LET bare == Replace(text, << "\\", "*" >>, << "*" >>)
        triple == Emphasis(bare, 3, TR_OPEN, TR_CLOSE)
        double == Emphasis(triple, 2, DB_OPEN, DB_CLOSE)
        single == Emphasis(double, 1, SG_OPEN, SG_CLOSE)
    IN  RestoreTags(_html_escape(single))

\* render_inline(text)
render_inline(text) ==
  IF text = EmptyStr THEN EmptyStr
  ELSE
    LET protected == Replace(text, << "\\", "*" >>, AST)
        triple == Emphasis(protected, 3, TR_OPEN, TR_CLOSE)
        double == Emphasis(triple, 2, DB_OPEN, DB_CLOSE)
        single == Emphasis(double, 1, SG_OPEN, SG_CLOSE)
        escaped == _html_escape(single)
        tagged == RestoreTags(escaped)
    IN  Replace(tagged, AST, << "*" >>)

\* ------------------------------------------------------------------ state
VARIABLES
  doc_started,     \* self._doc_started (absent, read as False, until the first start)
  doc_ended,       \* self._doc_ended
  fragments,       \* self._fragments: the list of HTML fragments
  list_open,       \* self._list_open
  explicit_title,  \* self._explicit_title: None or a str
  first_h1_title,  \* self._first_h1_title: None or a str
  result,          \* the last call: its name and arguments, what it raised or returned
  pc,              \* where a run of Diretor.parse_lines stands
  lines,           \* parse_lines: its argument, the input lines
  line_no,         \* parse_lines: the index of the line the loop is at
  in_list,         \* Diretor.in_list
  inline_renderer, \* Diretor.inline_renderer: the name of the rendering function
  calls,           \* the calls parse_lines has made to the assembler, in order
  inline_text,     \* the argument of a call of render_inline
  inline_html,     \* what that call returned: None until it has
  cli              \* a run of the command line: its arguments, the files, its outcome

builder == << doc_started, doc_ended, fragments, list_open, explicit_title, first_h1_title >>
diretor == << pc, lines, line_no, in_list, inline_renderer, calls >>
inline == << inline_text, inline_html >>
vars ==
  << doc_started, doc_ended, fragments, list_open, explicit_title, first_h1_title, result,
     pc, lines, line_no, in_list, inline_renderer, calls, inline_text, inline_html, cli >>

\* The command line has not been run: no file is looked at, nothing is
\* converted, no exit code is returned.
NoRun ==
  [ input |-> "missing", output_before |-> None, force |-> FALSE, body |-> FALSE,
    convert |-> "ok", write |-> "ok",
    converted |-> FALSE, output |-> None, exit |-> None ]

\* The operations that add to or seal the document.
Mutators ==
  { "end_document", "add_heading", "start_list", "add_list_item", "end_list",
    "add_paragraph" }

\* A call record: the operation and its arguments (those it does not take stay
\* at their defaults), the lifecycle and list flag it was issued in, and what it
\* raised or returned.
Call(op, text, level, title) ==
  [ op |-> op, text |-> text, level |-> level, title |-> title,
    pre |-> [ started |-> doc_started, ended |-> doc_ended, list_open |-> list_open ],
    follows |-> "", exc |-> "none", msg |-> "", ret |-> None ]
\* The record of a read accessor also names the call it directly follows, when
\* that call succeeded.
AccessorCall(op) ==
  [ Call(op, EmptyStr, 0, None) EXCEPT
      !.follows = IF result.exc = "none" THEN result.op ELSE "" ]
Raised(call, exc, msg) == [ call EXCEPT !.exc = exc, !.msg = msg ]
Returned(call, value) == [ call EXCEPT !.ret = Some(value) ]

\* `raise exc(msg)`: the call is abandoned with the object untouched.
Raise(call, exc, msg) ==
  /\ result' = Raised(call, exc, msg)
  /\ UNCHANGED builder

\* A freshly constructed StandardHtmlBuilder has no attributes yet; every
\* method reads the missing flags with getattr(..., False), and reads the other
\* attributes only behind the started-guard.
Init ==
  /\ doc_started = FALSE
  /\ doc_ended = FALSE
  /\ fragments = << >>
  /\ list_open = FALSE
  /\ explicit_title = None
  /\ first_h1_title = None
  /\ result = Call("init", EmptyStr, 0, None)
  \* a freshly constructed Diretor (in_list = False), not yet run
  /\ pc = "idle"
  /\ lines = << >>
  /\ line_no = 0
  /\ in_list = FALSE
  /\ inline_renderer = "render_inline"
  /\ calls = << >>
  \* render_inline has not been called
  /\ inline_text = EmptyStr
  /\ inline_html = None
  \* main() has not been called
  /\ cli = NoRun

\* The assembler driven call by call stops appending once the fragment list has
\* reached its bound; driven by parse_lines it is bounded by the input.
HasRoom == pc # "idle" \/ Len(fragments) < MaxFragments

\* ------------------------------------------------------------- operations
\* start_document that forgets to reset the list flag.
start_document_keeps_list(title) ==
  /\ doc_started' = TRUE
  /\ doc_ended' = FALSE
  /\ fragments' = << >>
  /\ explicit_title' = title
  /\ first_h1_title' = None
  /\ result' = Call("start_document", EmptyStr, 0, title)
  /\ UNCHANGED list_open

start_document(title) ==
  /\ doc_started' = TRUE
  /\ doc_ended' = FALSE
  /\ fragments' = << >>
  /\ list_open' = FALSE
  /\ explicit_title' = title
  /\ first_h1_title' = None
  /\ result' = Call("start_document", EmptyStr, 0, title)

\* end_document that seals the document without closing an open list.
end_document_list_left_open ==
  LET call == Call("end_document", EmptyStr, 0, None) IN
  IF ~doc_started THEN Raise(call, "RuntimeError", MSG_NOT_STARTED)
  ELSE IF doc_ended THEN Raise(call, "RuntimeError", MSG_ALREADY_ENDED)
  ELSE
    /\ doc_ended' = TRUE
    /\ result' = call
    /\ UNCHANGED << doc_started, fragments, list_open, explicit_title, first_h1_title >>

\* end_document whose second call unseals the document instead of raising.
end_document_toggles ==
  LET call == Call("end_document", EmptyStr, 0, None) IN
  IF ~doc_started THEN Raise(call, "RuntimeError", MSG_NOT_STARTED)
  ELSE
    /\ fragments' = IF list_open THEN Append(fragments, UL_CLOSE) ELSE fragments
    /\ list_open' = FALSE
    /\ doc_ended' = ~doc_ended
    /\ result' = call
    /\ UNCHANGED << doc_started, explicit_title, first_h1_title >>

end_document ==
  LET call == Call("end_document", EmptyStr, 0, None) IN
  IF ~doc_started THEN Raise(call, "RuntimeError", MSG_NOT_STARTED)
  ELSE IF doc_ended THEN Raise(call, "RuntimeError", MSG_ALREADY_ENDED)
  ELSE
    /\ fragments' = IF list_open THEN Append(fragments, UL_CLOSE) ELSE fragments
    /\ list_open' = FALSE
    /\ doc_ended' = TRUE
    /\ result' = call
    /\ UNCHANGED << doc_started, explicit_title, first_h1_title >>

\* add_heading that validates the level before it looks at the lifecycle.
add_heading_level_first(text, level) ==
  LET call == Call("add_heading", text, level, None) IN
  IF ~(MinLevel <= level /\ level <= MaxLevel) THEN Raise(call, "ValueError", MSG_LEVEL)
  ELSE IF ~doc_started THEN Raise(call, "RuntimeError", MSG_NOT_STARTED)
  ELSE IF doc_ended THEN Raise(call, "RuntimeError", MSG_ALREADY_ENDED)
  ELSE
    /\ HasRoom
    /\ first_h1_title' =
         IF level = 1 /\ first_h1_title = None /\ explicit_title = None
         THEN Some(text) ELSE first_h1_title
    /\ fragments' =
         Append(IF list_open THEN Append(fragments, UL_CLOSE) ELSE fragments,
                HeadingFragment(text, level))
    /\ list_open' = FALSE
    /\ result' = call
    /\ UNCHANGED << doc_started, doc_ended, explicit_title >>

\* add_heading that appends the heading first and the list close after it.
add_heading_close_after(text, level) ==
  LET call == Call("add_heading", text, level, None) IN
  IF ~doc_started THEN Raise(call, "RuntimeError", MSG_NOT_STARTED)
  ELSE IF doc_ended THEN Raise(call, "RuntimeError", MSG_ALREADY_ENDED)
  ELSE IF ~(MinLevel <= level /\ level <= MaxLevel) THEN Raise(call, "ValueError", MSG_LEVEL)
  ELSE
    /\ HasRoom
    /\ first_h1_title' =
         IF level = 1 /\ first_h1_title = None /\ explicit_title = None
         THEN Some(text) ELSE first_h1_title
    /\ fragments' =
         LET added == Append(fragments, HeadingFragment(text, level)) IN
         IF list_open THEN Append(added, UL_CLOSE) ELSE added
    /\ list_open' = FALSE
    /\ result' = call
    /\ UNCHANGED << doc_started, doc_ended, explicit_title >>

\* add_heading that takes the title from every level-1 heading, not the first.
add_heading_recaptures(text, level) ==
  LET call == Call("add_heading", text, level, None) IN
  IF ~doc_started THEN Raise(call, "RuntimeError", MSG_NOT_STARTED)
  ELSE IF doc_ended THEN Raise(call, "RuntimeError", MSG_ALREADY_ENDED)
  ELSE IF ~(MinLevel <= level /\ level <= MaxLevel) THEN Raise(call, "ValueError", MSG_LEVEL)
  ELSE
    /\ HasRoom
    /\ first_h1_title' =
         IF level = 1 /\ explicit_title = None THEN Some(text) ELSE first_h1_title
    /\ fragments' =
         Append(IF list_open THEN Append(fragments, UL_CLOSE) ELSE fragments,
                HeadingFragment(text, level))
    /\ list_open' = FALSE
    /\ result' = call
    /\ UNCHANGED << doc_started, doc_ended, explicit_title >>

\* add_heading that closes the open list before it checks the level.
add_heading_closes_before_check(text, level) ==
  LET call == Call("add_heading", text, level, None) IN
  IF ~doc_started THEN Raise(call, "RuntimeError", MSG_NOT_STARTED)
  ELSE IF doc_ended THEN Raise(call, "RuntimeError", MSG_ALREADY_ENDED)
  ELSE IF ~(MinLevel <= level /\ level <= MaxLevel)
  THEN /\ fragments' = IF list_open THEN Append(fragments, UL_CLOSE) ELSE fragments
       /\ list_open' = FALSE
       /\ result' = Raised(call, "ValueError", MSG_LEVEL)
       /\ UNCHANGED << doc_started, doc_ended, explicit_title, first_h1_title >>
  ELSE
    /\ HasRoom
    /\ first_h1_title' =
         IF level = 1 /\ first_h1_title = None /\ explicit_title = None
         THEN Some(text) ELSE first_h1_title
    /\ fragments' =
         Append(IF list_open THEN Append(fragments, UL_CLOSE) ELSE fragments,
                HeadingFragment(text, level))
    /\ list_open' = FALSE
    /\ result' = call
    /\ UNCHANGED << doc_started, doc_ended, explicit_title >>

add_heading(text, level) ==
  LET call == Call("add_heading", text, level, None) IN
  IF ~doc_started THEN Raise(call, "RuntimeError", MSG_NOT_STARTED)
  ELSE IF doc_ended THEN Raise(call, "RuntimeError", MSG_ALREADY_ENDED)
  ELSE IF ~(MinLevel <= level /\ level <= MaxLevel) THEN Raise(call, "ValueError", MSG_LEVEL)
  ELSE
    /\ HasRoom
    /\ first_h1_title' =
         IF level = 1 /\ first_h1_title = None /\ explicit_title = None
         THEN Some(text) ELSE first_h1_title
    /\ fragments' =
         Append(IF list_open THEN Append(fragments, UL_CLOSE) ELSE fragments,
                HeadingFragment(text, level))
    /\ list_open' = FALSE
    /\ result' = call
    /\ UNCHANGED << doc_started, doc_ended, explicit_title >>

\* start_list without its "list already open" guard.
start_list_nested ==
  LET call == Call("start_list", EmptyStr, 0, None) IN
  IF ~doc_started THEN Raise(call, "RuntimeError", MSG_NOT_STARTED)
  ELSE IF doc_ended THEN Raise(call, "RuntimeError", MSG_ALREADY_ENDED)
  ELSE
    /\ HasRoom
    /\ fragments' = Append(fragments, UL_OPEN)
    /\ list_open' = TRUE
    /\ result' = call
    /\ UNCHANGED << doc_started, doc_ended, explicit_title, first_h1_title >>

start_list ==
  LET call == Call("start_list", EmptyStr, 0, None) IN
  IF ~doc_started THEN Raise(call, "RuntimeError", MSG_NOT_STARTED)
  ELSE IF doc_ended THEN Raise(call, "RuntimeError", MSG_ALREADY_ENDED)
  ELSE IF list_open THEN Raise(call, "RuntimeError", MSG_LIST_OPEN)
  ELSE
    /\ HasRoom
    /\ fragments' = Append(fragments, UL_OPEN)
    /\ list_open' = TRUE
    /\ result' = call
    /\ UNCHANGED << doc_started, doc_ended, explicit_title, first_h1_title >>

\* add_list_item without its "no open list to add item" guard.
add_list_item_unguarded(text) ==
  LET call == Call("add_list_item", text, 0, None) IN
  IF ~doc_started THEN Raise(call, "RuntimeError", MSG_NOT_STARTED)
  ELSE IF doc_ended THEN Raise(call, "RuntimeError", MSG_ALREADY_ENDED)
  ELSE
    /\ HasRoom
    /\ fragments' = Append(fragments, ListItemFragment(text))
    /\ result' = call
    /\ UNCHANGED << doc_started, doc_ended, list_open, explicit_title, first_h1_title >>

add_list_item(text) ==
  LET call == Call("add_list_item", text, 0, None) IN
  IF ~doc_started THEN Raise(call, "RuntimeError", MSG_NOT_STARTED)
  ELSE IF doc_ended THEN Raise(call, "RuntimeError", MSG_ALREADY_ENDED)
  ELSE IF ~list_open THEN Raise(call, "RuntimeError", MSG_NO_LIST_ITEM)
  ELSE
    /\ HasRoom
    /\ fragments' = Append(fragments, ListItemFragment(text))
    /\ result' = call
    /\ UNCHANGED << doc_started, doc_ended, list_open, explicit_title, first_h1_title >>

\* end_list that quietly does nothing when no list is open.
end_list_idempotent ==
  LET call == Call("end_list", EmptyStr, 0, None) IN
  IF ~doc_started THEN Raise(call, "RuntimeError", MSG_NOT_STARTED)
  ELSE IF doc_ended THEN Raise(call, "RuntimeError", MSG_ALREADY_ENDED)
  ELSE
    /\ fragments' = IF list_open THEN Append(fragments, UL_CLOSE) ELSE fragments
    /\ list_open' = FALSE
    /\ result' = call
    /\ UNCHANGED << doc_started, doc_ended, explicit_title, first_h1_title >>

\* end_list that takes the '<ul>\n' of a list without items back.
end_list_drops_empty_list ==
  LET call == Call("end_list", EmptyStr, 0, None) IN
  IF ~doc_started THEN Raise(call, "RuntimeError", MSG_NOT_STARTED)
  ELSE IF doc_ended THEN Raise(call, "RuntimeError", MSG_ALREADY_ENDED)
  ELSE IF ~list_open THEN Raise(call, "RuntimeError", MSG_NO_LIST_END)
  ELSE
    /\ fragments' = IF fragments[Len(fragments)] = UL_OPEN
                    THEN SubSeq(fragments, 1, Len(fragments) - 1)
                    ELSE Append(fragments, UL_CLOSE)
    /\ list_open' = FALSE
    /\ result' = call
    /\ UNCHANGED << doc_started, doc_ended, explicit_title, first_h1_title >>

end_list ==
  LET call == Call("end_list", EmptyStr, 0, None) IN
  IF ~doc_started THEN Raise(call, "RuntimeError", MSG_NOT_STARTED)
  ELSE IF doc_ended THEN Raise(call, "RuntimeError", MSG_ALREADY_ENDED)
  ELSE IF ~list_open THEN Raise(call, "RuntimeError", MSG_NO_LIST_END)
  ELSE
    /\ fragments' = Append(fragments, UL_CLOSE)
    /\ list_open' = FALSE
    /\ result' = call
    /\ UNCHANGED << doc_started, doc_ended, explicit_title, first_h1_title >>

\* add_paragraph without its "document already ended" guard.
add_paragraph_unsealed(text) ==
  LET call == Call("add_paragraph", text, 0, None) IN
  IF ~doc_started THEN Raise(call, "RuntimeError", MSG_NOT_STARTED)
  ELSE
    /\ HasRoom
    /\ fragments' =
         Append(IF list_open THEN Append(fragments, UL_CLOSE) ELSE fragments,
                ParagraphFragment(text))
    /\ list_open' = FALSE
    /\ result' = call
    /\ UNCHANGED << doc_started, doc_ended, explicit_title, first_h1_title >>

\* add_paragraph that closes the list in the output but leaves the flag set.
add_paragraph_flag_kept(text) ==
  LET call == Call("add_paragraph", text, 0, None) IN
  IF ~doc_started THEN Raise(call, "RuntimeError", MSG_NOT_STARTED)
  ELSE IF doc_ended THEN Raise(call, "RuntimeError", MSG_ALREADY_ENDED)
  ELSE
    /\ HasRoom
    /\ fragments' =
         Append(IF list_open THEN Append(fragments, UL_CLOSE) ELSE fragments,
                ParagraphFragment(text))
    /\ result' = call
    /\ UNCHANGED << doc_started, doc_ended, list_open, explicit_title, first_h1_title >>

add_paragraph(text) ==
  LET call == Call("add_paragraph", text, 0, None) IN
  IF ~doc_started THEN Raise(call, "RuntimeError", MSG_NOT_STARTED)
  ELSE IF doc_ended THEN Raise(call, "RuntimeError", MSG_ALREADY_ENDED)
  ELSE
    /\ HasRoom
    /\ fragments' =
         Append(IF list_open THEN Append(fragments, UL_CLOSE) ELSE fragments,
                ParagraphFragment(text))
    /\ list_open' = FALSE
    /\ result' = call
    /\ UNCHANGED << doc_started, doc_ended, explicit_title, first_h1_title >>

\* get_body that returns a closed list for a list that is still open.
get_body_closes_list ==
  LET call == AccessorCall("get_body") IN
  IF ~doc_started THEN Raise(call, "RuntimeError", MSG_NOT_STARTED)
  ELSE
    /\ result' = Returned(call, Join(IF list_open THEN Append(fragments, UL_CLOSE) ELSE fragments))
    /\ UNCHANGED builder

\* get_body that hands the fragments over and empties the buffer.
get_body_flushes ==
  LET call == AccessorCall("get_body") IN
  IF ~doc_started THEN Raise(call, "RuntimeError", MSG_NOT_STARTED)
  ELSE
    /\ result' = Returned(call, Join(fragments))
    /\ fragments' = << >>
    /\ UNCHANGED << doc_started, doc_ended, list_open, explicit_title, first_h1_title >>

get_body ==
  LET call == AccessorCall("get_body") IN
  IF ~doc_started THEN Raise(call, "RuntimeError", MSG_NOT_STARTED)
  ELSE
    /\ result' = Returned(call, Join(fragments))
    /\ UNCHANGED builder

\* get_full_page is declared abstract in HTMLBuilder and called by
\* build_from_file and the tests; its body is not among the sources, so it is
\* modelled from the specification (section 4.2 and section 6): a fixed shell
\* with the resolved title and the get_body() output inside <body>.
DOCTYPE == <<"<", "!", "D", "O", "C", "T", "Y", "P", "E", " ", "h", "t", "m", "l", ">">>
HTML_OPEN == <<"<", "h", "t", "m", "l", ">">>
HTML_CLOSE == <<"<", "/", "h", "t", "m", "l", ">">>
HEAD_OPEN == <<"<", "h", "e", "a", "d", ">">>
HEAD_CLOSE == <<"<", "/", "h", "e", "a", "d", ">">>
META_CHARSET ==
  <<"<", "m", "e", "t", "a", " ", "c", "h", "a", "r", "s", "e", "t", "=",
    "\"", "u", "t", "f", "-", "8", "\"", ">">>
TITLE_OPEN == <<"<", "t", "i", "t", "l", "e", ">">>
TITLE_CLOSE == <<"<", "/", "t", "i", "t", "l", "e", ">">>
BODY_OPEN == <<"<", "b", "o", "d", "y", ">">>
BODY_CLOSE == <<"<", "/", "b", "o", "d", "y", ">">>
FALLBACK_TITLE == <<"D", "o", "c", "u", "m", "e", "n", "t">>
NL == <<"\n">>

\* explicitTitle if set, else firstH1Title if captured, else "Document".
ResolveTitle ==
  IF explicit_title # None THEN explicit_title[1]
  ELSE IF first_h1_title # None THEN first_h1_title[1]
  ELSE FALLBACK_TITLE

FullPage(title, body) ==
  DOCTYPE \o NL \o HTML_OPEN \o NL
    \o HEAD_OPEN \o NL \o META_CHARSET \o NL
    \o TITLE_OPEN \o title \o TITLE_CLOSE \o NL \o HEAD_CLOSE \o NL
    \o BODY_OPEN \o NL \o body \o BODY_CLOSE \o NL \o HTML_CLOSE \o NL

\* get_full_page that falls back to "Document" whenever no explicit title was given.
get_full_page_ignores_h1 ==
  LET call == AccessorCall("get_full_page") IN
  IF ~doc_started THEN Raise(call, "RuntimeError", MSG_NOT_STARTED)
  ELSE
    /\ result' = Returned(call,
                    FullPage(IF explicit_title # None THEN explicit_title[1] ELSE FALLBACK_TITLE,
                             Join(fragments)))
    /\ UNCHANGED builder

\* get_full_page that closes a still-open list before it renders the page.
get_full_page_closes_list ==
  LET call == AccessorCall("get_full_page") IN
  IF ~doc_started THEN Raise(call, "RuntimeError", MSG_NOT_STARTED)
  ELSE
    /\ fragments' = IF list_open THEN Append(fragments, UL_CLOSE) ELSE fragments
    /\ list_open' = FALSE
    /\ result' = Returned(call, FullPage(ResolveTitle, Join(fragments')))
    /\ UNCHANGED << doc_started, doc_ended, explicit_title, first_h1_title >>

get_full_page ==
  LET call == AccessorCall("get_full_page") IN
  IF ~doc_started THEN Raise(call, "RuntimeError", MSG_NOT_STARTED)
  ELSE
    /\ result' = Returned(call, FullPage(ResolveTitle, Join(fragments)))
    /\ UNCHANGED builder

\* ---------------------------------------------------------------- Diretor
\* The characters str.strip() removes and the pattern \s matches.
Whitespace == { " ", "\t", "\n", "\r" }

RECURSIVE lstrip(_)
lstrip(s) ==
  IF s # EmptyStr /\ Head(s) \in Whitespace THEN lstrip(Tail(s)) ELSE s

RECURSIVE rstrip(_)
rstrip(s) ==
  IF s # EmptyStr /\ s[Len(s)] \in Whitespace
  THEN rstrip(SubSeq(s, 1, Len(s) - 1)) ELSE s

strip(s) == lstrip(rstrip(s))

\* raw_line.rstrip("\n")
RECURSIVE rstrip_newline(_)
rstrip_newline(s) ==
  IF s # EmptyStr /\ s[Len(s)] = "\n"
  THEN rstrip_newline(SubSeq(s, 1, Len(s) - 1)) ELSE s

\* text.splitlines(): the lines of text, without their line ends.
RECURSIVE SplitFrom(_, _, _)
SplitFrom(s, i, cur) ==
  IF i > Len(s) THEN (IF cur = EmptyStr THEN << >> ELSE << cur >>)
  ELSE IF s[i] = "\r" /\ i < Len(s) /\ s[i + 1] = "\n"
    THEN << cur >> \o SplitFrom(s, i + 2, EmptyStr)
  ELSE IF s[i] \in { "\n", "\r" } THEN << cur >> \o SplitFrom(s, i + 1, EmptyStr)
  ELSE SplitFrom(s, i + 1, Append(cur, s[i]))
splitlines(s) == SplitFrom(s, 1, EmptyStr)

\* _RE_HEADING = ^(#{1,6})\s+(.*)$ : between MinHashes and MaxHashes '#', then
\* whitespace, then the text. A seventh '#' is no whitespace: no match.
MinHashes == 1
MaxHashes == 6

RECURSIVE LeadingHashes(_)
LeadingHashes(s) ==
  IF s # EmptyStr /\ Head(s) = "#" THEN 1 + LeadingHashes(Tail(s)) ELSE 0

\* A heading pattern without the upper bound on the number of '#'.
IsHeading_any_hashes(view) ==
  /\ LeadingHashes(view) >= MinHashes
  /\ LeadingHashes(view) < Len(view)
  /\ view[LeadingHashes(view) + 1] \in Whitespace

\* _RE_HEADING.match(view), for a view without a line break inside.
IsHeading(view) ==
  /\ LeadingHashes(view) \in MinHashes..MaxHashes
  /\ LeadingHashes(view) < Len(view)
  /\ view[LeadingHashes(view) + 1] \in Whitespace
\* A level that is the first level whatever the number of '#'.
HeadingLevel_first(view) == MinLevel
\* len(match.group(1))
HeadingLevel(view) == LeadingHashes(view)
\* match.group(2).strip()
HeadingText(view) == strip(SubSeq(view, LeadingHashes(view) + 2, Len(view)))

\* _RE_LIST = ^[-*]\s+(.*)$
Bullets == { "-", "*" }
IsListItem(view) ==
  /\ Len(view) >= 2
  /\ view[1] \in Bullets
  /\ view[2] \in Whitespace
\* match.group(1).strip()
ListItemText(view) == strip(SubSeq(view, 3, Len(view)))

\* The line the loop of parse_lines is at, and its view.
Line == rstrip_newline(lines[line_no])
\* A view that keeps the indentation of the line.
View_indented == Line
View == lstrip(Line)
AtLine == pc = "loop" /\ line_no <= Len(lines)
IsBlank == strip(Line) = EmptyStr

\* A call parse_lines makes to the assembler is logged; an exception it raises
\* leaves parse_lines at once.
Called(next_pc) ==
  /\ calls' = Append(calls, result')
  /\ pc' = IF result'.exc = "none" THEN next_pc ELSE "raised"

\* The loop goes on to the next line.
NextLine == line_no' = IF pc' = "loop" THEN line_no + 1 ELSE line_no

\* _close_list_if_open with a list open: end_list(), then in_list = False.
_close_list_if_open ==
  /\ end_list
  /\ Called("loop")
  /\ in_list' = IF result'.exc = "none" THEN FALSE ELSE in_list

\* A renderer a caller supplies: lambda s: f"[{s}]".
bracket(s) == << "[" >> \o s \o << "]" >>
\* A renderer a caller supplies that raises for the empty text and returns
\* any other text as it is.
strict(s) == s
\* The renderers a Diretor is constructed with: none, or the bracket renderer.
Renderers == { None, Some("bracket") }
\* The call self.inline_renderer(text) raises.
RendererRaises(text) == inline_renderer = "strict" /\ text = EmptyStr
\* An exception of the renderer leaves the handler and parse_lines; no call
\* reaches the assembler.
RendererRaised ==
  /\ pc' = "raised"
  /\ UNCHANGED << builder, result, calls, in_list, line_no >>
\* A handler that renders the text it has already rendered.
self_inline_renderer_twice(text) ==
  IF inline_renderer = "render_inline" THEN render_inline(render_inline(text))
  ELSE IF inline_renderer = "bracket" THEN bracket(bracket(text))
  ELSE strict(strict(text))
\* self.inline_renderer(text)
self_inline_renderer(text) ==
  IF inline_renderer = "render_inline" THEN render_inline(text)
  ELSE IF inline_renderer = "bracket" THEN bracket(text)
  ELSE strict(text)

\* Diretor(builder, inline_renderer): self.inline_renderer = inline_renderer or
\* render_inline; self.in_list = False.
Diretor(renderer) ==
  /\ pc = "idle"
  /\ inline_renderer' = IF renderer = None THEN "render_inline" ELSE renderer[1]
  /\ in_list' = FALSE
  /\ UNCHANGED << builder, result, pc, lines, line_no, calls >>

\* parse_lines(lines), entered: _start_document().
parse_lines(ls) ==
  /\ pc \in { "idle", "done", "raised" }
  /\ start_document(None)
  /\ calls' = << result' >>
  /\ pc' = IF result'.exc = "none" THEN "loop" ELSE "raised"
  /\ lines' = ls
  /\ line_no' = 1
  /\ UNCHANGED in_list

\* parse_text(text)
parse_text(text) == parse_lines(splitlines(text))

\* A blank line that is skipped with the list left open.
blank_line_keeps_list ==
  /\ AtLine
  /\ IsBlank
  /\ UNCHANGED << builder, result, pc, in_list, calls >>
  /\ NextLine
  /\ UNCHANGED lines

\* The loop at a line that is empty once stripped: _close_list_if_open().
blank_line ==
  /\ AtLine
  /\ IsBlank
  /\ IF in_list THEN _close_list_if_open
     ELSE UNCHANGED << builder, result, pc, in_list, calls >>
  /\ NextLine
  /\ UNCHANGED lines

\* A heading handler that leaves the closing of an open list to add_heading.
_handle_heading_relies_on_assembler ==
  /\ AtLine
  /\ ~IsBlank
  /\ IsHeading(View)
  /\ IF RendererRaises(HeadingText(View)) THEN RendererRaised
     ELSE /\ add_heading(self_inline_renderer(HeadingText(View)), HeadingLevel(View))
          /\ Called("loop")
          /\ NextLine
          /\ in_list' = FALSE
  /\ UNCHANGED lines

\* _handle_heading(match): _close_list_if_open(), then add_heading.
_handle_heading ==
  /\ AtLine
  /\ ~IsBlank
  /\ IsHeading(View)
  /\ IF in_list THEN _close_list_if_open /\ UNCHANGED line_no
     ELSE IF RendererRaises(HeadingText(View)) THEN RendererRaised
     ELSE /\ add_heading(self_inline_renderer(HeadingText(View)), HeadingLevel(View))
          /\ Called("loop")
          /\ NextLine
          /\ UNCHANGED in_list
  /\ UNCHANGED lines

\* _handle_list_item that closes the open list and opens a new one at every item.
_handle_list_item_reopens ==
  /\ AtLine
  /\ ~IsBlank
  /\ ~IsHeading(View)
  /\ IsListItem(View)
  /\ IF in_list /\ result.op # "start_list"
     THEN /\ end_list
          /\ Called("loop")
          /\ in_list' = FALSE
          /\ UNCHANGED line_no
     ELSE IF ~in_list
     THEN /\ start_list
          /\ Called("loop")
          /\ in_list' = (result'.exc = "none")
          /\ UNCHANGED line_no
     ELSE /\ add_list_item(self_inline_renderer(ListItemText(View)))
          /\ Called("loop")
          /\ NextLine
          /\ UNCHANGED in_list
  /\ UNCHANGED lines

\* _handle_list_item(match): start_list() if no list is open, then
\* add_list_item.
_handle_list_item ==
  /\ AtLine
  /\ ~IsBlank
  /\ ~IsHeading(View)
  /\ IsListItem(View)
  /\ IF RendererRaises(ListItemText(View)) THEN RendererRaised
     ELSE IF ~in_list
     THEN /\ start_list
          /\ Called("loop")
          /\ in_list' = (result'.exc = "none")
          /\ UNCHANGED line_no
     ELSE /\ add_list_item(self_inline_renderer(ListItemText(View)))
          /\ Called("loop")
          /\ NextLine
          /\ UNCHANGED in_list
  /\ UNCHANGED lines

\* A paragraph handler that drops a line beginning with a marker character.
_handle_paragraph_line_drops_markers ==
  /\ AtLine
  /\ ~IsBlank
  /\ ~IsHeading(View)
  /\ ~IsListItem(View)
  /\ IF View[1] \in Bullets \cup { "#" }
     THEN /\ line_no' = line_no + 1
          /\ UNCHANGED << builder, result, pc, in_list, calls >>
     ELSE IF in_list THEN _close_list_if_open /\ UNCHANGED line_no
     ELSE /\ add_paragraph(self_inline_renderer(strip(View)))
          /\ Called("loop")
          /\ NextLine
          /\ UNCHANGED in_list
  /\ UNCHANGED lines

\* A paragraph handler that joins a line to the paragraph of the line before.
_handle_paragraph_line_joins ==
  /\ AtLine
  /\ ~IsBlank
  /\ ~IsHeading(View)
  /\ ~IsListItem(View)
  /\ IF in_list THEN _close_list_if_open /\ UNCHANGED line_no
     ELSE IF result.op = "add_paragraph"
     THEN /\ fragments' =
               [ fragments EXCEPT ![Len(fragments)] =
                   ParagraphFragment(result.text \o << " " >> \o self_inline_renderer(strip(View))) ]
          /\ line_no' = line_no + 1
          /\ UNCHANGED << doc_started, doc_ended, list_open, explicit_title,
                          first_h1_title, result, pc, in_list, calls >>
     ELSE /\ add_paragraph(self_inline_renderer(strip(View)))
          /\ Called("loop")
          /\ NextLine
          /\ UNCHANGED in_list
  /\ UNCHANGED lines

\* _handle_paragraph_line(line): _close_list_if_open(), then add_paragraph.
_handle_paragraph_line ==
  /\ AtLine
  /\ ~IsBlank
  /\ ~IsHeading(View)
  /\ ~IsListItem(View)
  /\ IF in_list THEN _close_list_if_open /\ UNCHANGED line_no
     ELSE IF RendererRaises(strip(View)) THEN RendererRaised
     ELSE /\ add_paragraph(self_inline_renderer(strip(View)))
          /\ Called("loop")
          /\ NextLine
          /\ UNCHANGED in_list
  /\ UNCHANGED lines

\* parse_lines that leaves the document open when the input ends in a list.
parse_lines_end_unsealed ==
  /\ pc = "loop"
  /\ line_no > Len(lines)
  /\ IF in_list
     THEN /\ end_list
          /\ calls' = Append(calls, result')
          /\ pc' = IF result'.exc = "none" THEN "done" ELSE "raised"
          /\ in_list' = IF result'.exc = "none" THEN FALSE ELSE in_list
     ELSE /\ end_document
          /\ Called("done")
          /\ UNCHANGED in_list
  /\ UNCHANGED << lines, line_no >>

\* parse_lines that leaves the closing of an open list to end_document.
parse_lines_end_leaves_list ==
  /\ pc = "loop"
  /\ line_no > Len(lines)
  /\ end_document
  /\ Called("done")
  /\ UNCHANGED << lines, line_no, in_list >>

\* parse_lines after the last line: _close_list_if_open(), then
\* _end_document().
parse_lines_end ==
  /\ pc = "loop"
  /\ line_no > Len(lines)
  /\ IF in_list THEN _close_list_if_open
     ELSE /\ end_document
          /\ Called("done")
          /\ UNCHANGED in_list
  /\ UNCHANGED << lines, line_no >>

\* ------------------------------------------------------------ the machine
\* The assembler called directly: no Diretor runs, render_inline is not called.
Direct == UNCHANGED << diretor, inline, cli >>

Next ==
  \/ \E title \in Titles : start_document(title) /\ Direct
  \/ end_document /\ Direct
  \/ \E text \in Texts, level \in Levels : add_heading(text, level) /\ Direct
  \/ start_list /\ Direct
  \/ \E text \in Texts : add_list_item(text) /\ Direct
  \/ end_list /\ Direct
  \/ \E text \in Texts : add_paragraph(text) /\ Direct
  \/ get_body /\ Direct
  \/ get_full_page /\ Direct

Spec == Init /\ [][Next]_vars

\* ------------------------------------------------------------- parse runs
\* The lines parse_lines is given: an empty line and a line of spaces;
\* headings of the first and the last level, an indented one, one with no
\* text, and (paragraphs) seven '#' after indentation and a '#' without
\* whitespace; list items with either bullet, with emphasis, indented with the
\* line end kept, one with no text, and (a paragraph) a bullet alone; a
\* paragraph that begins with emphasis.
LineTexts ==
  { <<  >>,
    << " ", " " >>,
    << "#", " ", "a" >>,
    << "#", "#", "#", "#", "#", "#", " ", "a" >>,
    << " ", "#", "#", "#", "#", "#", "#", "#", " ", "a" >>,
    << "-", " ", "a" >>,
    << "*", " ", "*", "b", "*" >>,
    << "*", "a", "*", " ", "b" >>,
    << "#", "a" >>,
    << " ", "-", " ", "a", "\n" >>,
    << "#", " ", " " >>,
    << "-", " " >>,
    << "-" >>,
    << " ", " ", "#", "#", " ", "b" >> }
LineInputs == UNION { [ 1..n -> LineTexts ] : n \in 0..MaxLines }

\* The texts parse_text is given: the empty text, a list followed by a blank
\* line and a paragraph, and a text with a list between two headings, one line
\* ended by '\r\n'.
TextInputs ==
  { EmptyStr,
    << "-", " ", "a", "\n", "-", " ", "b", "\n", "\n", "a", "f", "t", "e", "r", "\n" >>,
    << "#", " ", "a", "\r", "\n", "-", " ", "a", "\n", "#", "#", " ", "b" >> }

ParseNext ==
  \/ \E renderer \in Renderers : Diretor(renderer) /\ UNCHANGED << inline, cli >>
  \/ pc = "idle" /\ \E ls \in LineInputs : parse_lines(ls) /\ UNCHANGED << inline_renderer, inline, cli >>
  \/ pc = "idle" /\ \E text \in TextInputs : parse_text(text) /\ UNCHANGED << inline_renderer, inline, cli >>
  \/ blank_line /\ UNCHANGED << inline_renderer, inline, cli >>
  \/ _handle_heading /\ UNCHANGED << inline_renderer, inline, cli >>
  \/ _handle_list_item /\ UNCHANGED << inline_renderer, inline, cli >>
  \/ _handle_paragraph_line /\ UNCHANGED << inline_renderer, inline, cli >>
  \/ parse_lines_end /\ UNCHANGED << inline_renderer, inline, cli >>

\* A fresh Diretor over a fresh StandardHtmlBuilder, run once.
SpecParse == Init /\ [][ParseNext]_vars

\* Runs of one Diretor one after the other on the same assembler: parse_lines
\* is called again after it has returned or has been left by an exception.
\* The renderer is render_inline, the bracket renderer or the strict one; the
\* lines are a blank line, a heading, a list item, a list item without text
\* (which the strict renderer refuses) and a paragraph.
AllRenderers == Renderers \cup { Some("strict") }
RerunLineTexts ==
  { <<  >>,
    << "#", " ", "a" >>,
    << "-", " ", "a" >>,
    << "-", " " >>,
    << "#", "a" >> }
RerunInputs == UNION { [ 1..n -> RerunLineTexts ] : n \in 0..MaxLines }

RerunNext ==
  \/ \E renderer \in AllRenderers : Diretor(renderer) /\ UNCHANGED << inline, cli >>
  \/ pc # "loop" /\ \E ls \in RerunInputs : parse_lines(ls) /\ UNCHANGED << inline_renderer, inline, cli >>
  \/ blank_line /\ UNCHANGED << inline_renderer, inline, cli >>
  \/ _handle_heading /\ UNCHANGED << inline_renderer, inline, cli >>
  \/ _handle_list_item /\ UNCHANGED << inline_renderer, inline, cli >>
  \/ _handle_paragraph_line /\ UNCHANGED << inline_renderer, inline, cli >>
  \/ parse_lines_end /\ UNCHANGED << inline_renderer, inline, cli >>

SpecRerun == Init /\ [][RerunNext]_vars

\* ------------------------------------------------------------ properties
\* The call just made (in the state after it) raised this error.
Failed(r, exc, msg) == r.exc = exc /\ r.msg = msg
Succeeded(r) == r.exc = "none"

\* How often a fragment occurs in a fragment list.
RECURSIVE Count(_, _)
Count(frags, f) ==
  IF frags = << >> THEN 0
  ELSE (IF Head(frags) = f THEN 1 ELSE 0) + Count(Tail(frags), f)

\* A left-to-right scan of the list markers of a fragment list: "nested" at a
\* second '<ul>\n' inside an open list, "stray" at a '</ul>\n' with no list open,
\* otherwise "open" or "closed" as the list stands at the end.
RECURSIVE ListScan(_, _)
ListScan(frags, open) ==
  IF frags = << >> THEN (IF open THEN "open" ELSE "closed")
  ELSE IF Head(frags) = UL_OPEN
    THEN (IF open THEN "nested" ELSE ListScan(Tail(frags), TRUE))
  ELSE IF Head(frags) = UL_CLOSE
    THEN (IF open THEN ListScan(Tail(frags), FALSE) ELSE "stray")
  ELSE ListScan(Tail(frags), open)

\* C1: every content-mutating operation called before start_document() fails
\* with RuntimeError "document not started", and called on an ended document
\* fails with RuntimeError "document already ended", whatever its arguments and
\* whatever was built before.
C1_MutatorsNeedOpenDocument ==
  [][ result'.op \in Mutators =>
        /\ ~doc_started => Failed(result', "RuntimeError", MSG_NOT_STARTED)
        /\ (doc_started /\ doc_ended) => Failed(result', "RuntimeError", MSG_ALREADY_ENDED)
    ]_vars

\* C1 witness: a paragraph is refused on an ended document that holds content.
C1_Witness ==
  /\ result.op = "add_paragraph"
  /\ result.pre.ended
  /\ Failed(result, "RuntimeError", MSG_ALREADY_ENDED)
  /\ Len(fragments) >= 2

\* C2: the fragment list never holds a second '<ul>\n' inside an open list, nor
\* a '</ul>\n' with no list open, after any sequence of calls.
C2_ListMarkersAlternate ==
  ListScan(fragments, FALSE) \in { "open", "closed" }

\* C2 witness: a second list has been opened after the first one was closed,
\* and a start_list inside it has just been refused.
C2_Witness ==
  /\ result.op = "start_list"
  /\ Failed(result, "RuntimeError", MSG_LIST_OPEN)
  /\ Count(fragments, UL_OPEN) = 2
  /\ Count(fragments, UL_CLOSE) = 1

\* C3: a successful add_heading or add_paragraph on an open list appends exactly
\* one '</ul>\n', directly before the new block, and clears the list flag; with
\* no list open it appends the block alone, so the close is never duplicated.
C3_AutoCloseOnce ==
  [][ (result'.op \in { "add_heading", "add_paragraph" } /\ Succeeded(result')) =>
        /\ ~list_open'
        /\ Count(fragments', UL_CLOSE) = Count(fragments, UL_CLOSE) + (IF list_open THEN 1 ELSE 0)
        /\ Len(fragments') = Len(fragments) + (IF list_open THEN 2 ELSE 1)
        /\ SubSeq(fragments', 1, Len(fragments)) = fragments
        /\ list_open => fragments'[Len(fragments) + 1] = UL_CLOSE
        /\ fragments'[Len(fragments')] \notin { UL_OPEN, UL_CLOSE }
    ]_vars

\* C3 witness: a heading has arrived on an open list that held an item, and
\* the list was closed once, before the heading.
C3_Witness ==
  /\ result.op = "add_heading"
  /\ Succeeded(result)
  /\ result.pre.list_open
  /\ Len(fragments) = 4
  /\ fragments[1] = UL_OPEN
  /\ fragments[3] = UL_CLOSE
  /\ Count(fragments, UL_CLOSE) = 1

\* The three lifecycle states of the specification, read off the two flags.
NotStarted == ~doc_started
Open == doc_started /\ ~doc_ended
Ended == doc_started /\ doc_ended

\* C4: end_document succeeds exactly in state Open; it then appends '</ul>\n'
\* if (and only if) a list is open, clears the list flag and moves to Ended; on
\* an ended document it fails with "document already ended". Hence every Ended
\* state has the list flag clear and no unclosed '<ul>\n'.
C4_EndDocumentSeals ==
  /\ [](Ended => (~list_open /\ ListScan(fragments, FALSE) = "closed"))
  /\ [][ result'.op = "end_document" =>
           /\ Succeeded(result') <=> Open
           /\ Ended => Failed(result', "RuntimeError", MSG_ALREADY_ENDED)
           /\ Open =>
                /\ Ended'
                /\ ~list_open'
                /\ fragments' = IF list_open THEN Append(fragments, UL_CLOSE) ELSE fragments
       ]_vars

\* C4 witness: end_document has sealed a document whose list was still open.
C4_Witness ==
  /\ result.op = "end_document"
  /\ Succeeded(result)
  /\ result.pre.list_open
  /\ Ended
  /\ fragments[Len(fragments)] = UL_CLOSE

\* C5 as stated: once Ended, the lifecycle never leaves Ended, whatever is
\* called afterwards.
C5_EndedIsTerminal ==
  [][ Ended => Ended' ]_vars

\* C5 amended: once Ended, the assembler stays Ended, with its content
\* untouched, under every operation except start_document; start_document
\* reopens it.
C5_EndedUntilRestart ==
  [][ Ended =>
        IF result'.op = "start_document" THEN Open' ELSE (Ended' /\ UNCHANGED builder)
    ]_vars

\* C5 witness: a second end_document on an ended document that holds content
\* left it Ended.
C5_Witness ==
  /\ result.op = "end_document"
  /\ result.pre.ended
  /\ Ended
  /\ fragments # << >>

\* C6: start_document can be called in every state and never raises; it leaves
\* the assembler Open with no fragments, the list flag clear, the explicit title
\* equal to its argument (None if none was given) and no first-H1 title.
C6_StartAlwaysResets ==
  /\ [](\A title \in Titles : ENABLED start_document(title))
  /\ [][ result'.op = "start_document" =>
           /\ Succeeded(result')
           /\ Open'
           /\ fragments' = << >>
           /\ ~list_open'
           /\ explicit_title' = result'.title
           /\ first_h1_title' = None
       ]_vars

\* C6 witness: start_document with a title was called on an open document
\* whose list was still open, and reset it.
C6_Witness ==
  /\ result.op = "start_document"
  /\ result.pre.started
  /\ ~result.pre.ended
  /\ result.pre.list_open
  /\ result.title # None
  /\ fragments = << >>

\* C7: add_heading looks at the lifecycle before the level: before start and
\* after end it fails with the invalid-state error even for a level outside
\* 1..6; in state Open a level below 1 or above 6 fails with ValueError
\* "heading level must be between 1 and 6", appending nothing, leaving an open
\* list open and capturing no title.
C7_LifecycleBeforeLevel ==
  [][ result'.op = "add_heading" =>
        /\ NotStarted => Failed(result', "RuntimeError", MSG_NOT_STARTED)
        /\ Ended => Failed(result', "RuntimeError", MSG_ALREADY_ENDED)
        /\ (Open /\ (result'.level < 1 \/ result'.level > 6)) =>
             /\ Failed(result', "ValueError", MSG_LEVEL)
             /\ UNCHANGED << fragments, list_open, first_h1_title >>
        /\ (Open /\ result'.level >= 1 /\ result'.level <= 6) => Succeeded(result')
    ]_vars

\* C7 witness: a heading of level 7 was refused on an ended document, with the
\* invalid-state error.
C7_Witness ==
  /\ result.op = "add_heading"
  /\ result.level = 7
  /\ result.pre.ended
  /\ Failed(result, "RuntimeError", MSG_ALREADY_ENDED)

\* s starts with, ends with, p.
IsPrefix(p, s) == Len(p) <= Len(s) /\ SubSeq(s, 1, Len(p)) = p
IsSuffix(p, s) == Len(p) <= Len(s) /\ SubSeq(s, Len(s) - Len(p) + 1, Len(s)) = p

\* The positions at or after `from` where p occurs in s.
Occurrences(p, s, from) ==
  { i \in from .. (Len(s) - Len(p) + 1) : SubSeq(s, i, i + Len(p) - 1) = p }
Min(S) == CHOOSE x \in S : \A y \in S : x <= y
Max(S) == CHOOSE x \in S : \A y \in S : x >= y

\* The text of s between the first `open` and the first `close` after it, as
\* None or Some(text).
ElementText(s, open, close) ==
  IF Occurrences(open, s, 1) = {} THEN None
  ELSE LET from == Min(Occurrences(open, s, 1)) + Len(open) IN
       IF Occurrences(close, s, from) = {} THEN None
       ELSE Some(SubSeq(s, from, Min(Occurrences(close, s, from)) - 1))

\* The text of s between the first `open` and the last `close` after it.
ElementBlock(s, open, close) ==
  IF Occurrences(open, s, 1) = {} THEN None
  ELSE LET from == Min(Occurrences(open, s, 1)) + Len(open) IN
       IF Occurrences(close, s, from) = {} THEN None
       ELSE Some(SubSeq(s, from, Max(Occurrences(close, s, from)) - 1))

\* C8: for every level in 1..6 and every text, a successful add_heading(text,
\* level) directly followed by get_body() makes get_body return a string that
\* ends with '<h{level}>{text}</h{level}>\n', whatever was added before, an open
\* list included.
C8_BodyEndsWithHeading ==
  [][ (result.op = "add_heading" /\ Succeeded(result) /\ result'.op = "get_body") =>
        /\ Succeeded(result')
        /\ result'.ret # None
        /\ LET digit == <<"1", "2", "3", "4", "5", "6">>[result.level]
               expected == <<"<", "h", digit, ">">> \o result.text
                             \o <<"<", "/", "h", digit, ">", "\n">>
           IN IsSuffix(expected, result'.ret[1])
    ]_vars

\* C8 witness: get_body was called right after a heading that arrived on an
\* open list.
C8_Witness ==
  /\ result.op = "get_body"
  /\ result.follows = "add_heading"
  /\ Succeeded(result)
  /\ Len(fragments) >= 3
  /\ fragments[1] = UL_OPEN
  /\ fragments[Len(fragments) - 1] = UL_CLOSE

\* C9: the first-H1 title changes only in two ways: start_document clears it,
\* and a successful level-1 add_heading sets it to the heading's text when
\* neither title is set (and then always does); so it is never overwritten, and
\* levels 2..6 never set it. The explicit title is changed by start_document
\* alone.
C9_TitleCapturedOnce ==
  [][ /\ explicit_title' # explicit_title => result'.op = "start_document"
      /\ result'.op # "start_document" =>
           LET captures == /\ result'.op = "add_heading"
                           /\ Succeeded(result')
                           /\ result'.level = 1
                           /\ first_h1_title = None
                           /\ explicit_title = None
           IN first_h1_title' = IF captures THEN Some(result'.text) ELSE first_h1_title
    ]_vars

\* C9 witness: a second level-1 heading with another text was added and the
\* title captured from the first one stayed.
C9_Witness ==
  /\ result.op = "add_heading"
  /\ Succeeded(result)
  /\ result.level = 1
  /\ first_h1_title # None
  /\ first_h1_title # Some(result.text)
  /\ Len(fragments) = 2

\* C10: a page returned by get_full_page() starts with '<!DOCTYPE html>', its
\* <title> holds the explicit title if one is set, else the first-H1 title if
\* one was captured, else 'Document', and its <body> holds exactly what
\* get_body() returns.
C10_FullPageTitleAndBody ==
  (result.op = "get_full_page" /\ Succeeded(result)) =>
    /\ result.ret # None
    /\ LET page == result.ret[1]
           title == IF explicit_title # None THEN explicit_title[1]
                    ELSE IF first_h1_title # None THEN first_h1_title[1]
                    ELSE <<"D", "o", "c", "u", "m", "e", "n", "t">>
       IN /\ IsPrefix(DOCTYPE, page)
          /\ ElementText(page, TITLE_OPEN, TITLE_CLOSE) = Some(title)
          /\ ElementBlock(page, BODY_OPEN \o NL, BODY_CLOSE) = Some(Join(fragments))

\* C10 witness: a full page was produced for a document with no explicit title
\* whose first level-1 heading supplied the title.
C10_Witness ==
  /\ result.op = "get_full_page"
  /\ Succeeded(result)
  /\ explicit_title = None
  /\ first_h1_title = Some(<<"a">>)
  /\ Len(fragments) >= 2

\* C11: get_full_page fails with RuntimeError "document not started" before
\* start_document, succeeds in Open and in Ended, and changes nothing of the
\* assembler; a list that is open stays open and is embedded in the page
\* without its close.
C11_FullPageReadOnly ==
  [][ result'.op = "get_full_page" =>
        /\ NotStarted => Failed(result', "RuntimeError", "document not started")
        /\ (Open \/ Ended) => (Succeeded(result') /\ result'.ret # None)
        /\ UNCHANGED builder
        /\ (Open /\ list_open) =>
             LET body == ElementBlock(result'.ret[1], BODY_OPEN \o NL, BODY_CLOSE) IN
             /\ body = Some(Join(fragments))
             /\ ~IsSuffix(UL_CLOSE, body[1])
             /\ ListScan(fragments', FALSE) = "open"
    ]_vars

\* C11 witness: a full page was produced while a list with an item was open.
C11_Witness ==
  /\ result.op = "get_full_page"
  /\ Succeeded(result)
  /\ list_open
  /\ Len(fragments) = 2
  /\ fragments[1] = UL_OPEN

\* The fragments written one after the other, last fragment last.
RECURSIVE InOrder(_)
InOrder(frags) ==
  IF frags = << >> THEN << >>
  ELSE InOrder(SubSeq(frags, 1, Len(frags) - 1)) \o frags[Len(frags)]

\* C12: get_body fails with RuntimeError "document not started" before
\* start_document and succeeds in Open and in Ended, returning the fragments
\* concatenated in insertion order; an open list is returned unterminated.
C12_BodyIsFragmentsInOrder ==
  result.op = "get_body" =>
    /\ ~result.pre.started => Failed(result, "RuntimeError", "document not started")
    /\ result.pre.started =>
         /\ Succeeded(result)
         /\ result.ret = Some(InOrder(fragments))
         /\ list_open = result.pre.list_open
         /\ result.pre.list_open =>
              LET body == result.ret[1] IN
              /\ Occurrences(UL_OPEN, body, 1) # {}
              /\ \A c \in Occurrences(UL_CLOSE, body, 1) :
                    c < Max(Occurrences(UL_OPEN, body, 1))

\* C12 witness: get_body returned a body whose second list is still open.
C12_Witness ==
  /\ result.op = "get_body"
  /\ Succeeded(result)
  /\ list_open
  /\ Count(fragments, UL_OPEN) = 2
  /\ Open

\* C13: in any state but NotStarted, get_body changes nothing of the assembler
\* (lifecycle, fragments, list flag, both titles), and a get_body that directly
\* follows a get_body returns the same string.
C13_BodyIdempotent ==
  [][ (result'.op = "get_body" /\ ~NotStarted) =>
        /\ UNCHANGED builder
        /\ Succeeded(result')
        /\ (result.op = "get_body" /\ Succeeded(result)) => result'.ret = result.ret
    ]_vars

\* C13 witness: get_body was called directly after a successful get_body, on
\* an ended document that holds content.
C13_Witness ==
  /\ result.op = "get_body"
  /\ result.follows = "get_body"
  /\ Succeeded(result)
  /\ Ended
  /\ Len(fragments) >= 2

\* C14: in state Open, start_list on an open list fails with "list already
\* open", and add_list_item and end_list with no list open fail with "no open
\* list to add item" and "no open list to end"; with the list in the required
\* state the three succeed. The three messages differ from one another and
\* from the two lifecycle messages.
C14_ListGuards ==
  /\ (result.pre.started /\ ~result.pre.ended) =>
       /\ result.op = "start_list" =>
            IF result.pre.list_open
            THEN Failed(result, "RuntimeError", "list already open")
            ELSE Succeeded(result)
       /\ result.op = "add_list_item" =>
            IF result.pre.list_open
            THEN Succeeded(result)
            ELSE Failed(result, "RuntimeError", "no open list to add item")
       /\ result.op = "end_list" =>
            IF result.pre.list_open
            THEN Succeeded(result)
            ELSE Failed(result, "RuntimeError", "no open list to end")
  /\ Cardinality({ MSG_LIST_OPEN, MSG_NO_LIST_ITEM, MSG_NO_LIST_END,
                   MSG_NOT_STARTED, MSG_ALREADY_ENDED }) = 5

\* C14 witness: an end_list directly after the list was closed has failed.
C14_Witness ==
  /\ result.op = "end_list"
  /\ Failed(result, "RuntimeError", MSG_NO_LIST_END)
  /\ Open
  /\ fragments # << >>
  /\ fragments[Len(fragments)] = UL_CLOSE

\* The fragment at position k lies inside a list: a '<ul>\n' precedes it with
\* no '</ul>\n' between the two.
InsideList(frags, k) ==
  \E i \in 1..(k - 1) :
    /\ frags[i] = UL_OPEN
    /\ \A j \in (i + 1)..(k - 1) : frags[j] # UL_CLOSE
\* The kinds of block fragment, told by how the fragment begins.
IsItemFragment(f) == IsPrefix(LI_OPEN, f)
IsBlockFragment(f) == IsPrefix(P_OPEN, f) \/ IsPrefix(<< "<", "h" >>, f)

\* C31: in every state the list flag is set exactly when the fragment list
\* holds a '<ul>\n' with no '</ul>\n' after it; every list-item fragment lies
\* inside a list, and no heading or paragraph fragment does.
C31_ListFlagTracksFragments ==
  /\ list_open <=> InsideList(fragments, Len(fragments) + 1)
  /\ \A k \in 1..Len(fragments) :
       /\ IsItemFragment(fragments[k]) => InsideList(fragments, k)
       /\ IsBlockFragment(fragments[k]) => ~InsideList(fragments, k)

\* C31 witness: after a paragraph a list was opened and holds an item; the
\* flag is set.
C31_Witness ==
  /\ list_open
  /\ Len(fragments) = 3
  /\ IsBlockFragment(fragments[1])
  /\ fragments[2] = UL_OPEN
  /\ IsItemFragment(fragments[3])
  /\ result.op = "add_list_item"
  /\ Succeeded(result)

\* What lies between the first open characters and the last close characters
\* of a fragment.
Between(f, open, close) == SubSeq(f, open + 1, Len(f) - close)
\* f is one of the five fragments: '<hN>text</hN>\n' with N in 1..6,
\* '<p>text</p>\n', '<ul>\n', '<li>text</li>\n', '</ul>\n'.
IsFragment(f) ==
  \/ f \in { UL_OPEN, UL_CLOSE }
  \/ /\ Len(f) >= Len(P_OPEN) + Len(P_CLOSE)
     /\ f = ParagraphFragment(Between(f, Len(P_OPEN), Len(P_CLOSE)))
  \/ /\ Len(f) >= Len(LI_OPEN) + Len(LI_CLOSE)
     /\ f = ListItemFragment(Between(f, Len(LI_OPEN), Len(LI_CLOSE)))
  \/ /\ Len(f) >= Len(HeadingFragment(EmptyStr, MinLevel))
     /\ \E n \in MinLevel..MaxLevel :
          f = HeadingFragment(Between(f, 4, 6), n)

\* C32: a successful operation other than start_document leaves the fragments
\* it found as the beginning of the new fragment list; each fragment it
\* appends is one of the five fragments and ends with a newline; a paragraph
\* and a list item are appended with the text given, the empty one too.
C32_AppendOnly ==
  [][ (Succeeded(result') /\ result'.op # "start_document") =>
        /\ IsPrefix(fragments, fragments')
        /\ \A k \in (Len(fragments) + 1)..Len(fragments') :
             /\ IsFragment(fragments'[k])
             /\ fragments'[k][Len(fragments'[k])] = "\n"
        /\ result'.op = "add_paragraph" =>
             fragments'[Len(fragments')] = P_OPEN \o result'.text \o P_CLOSE
        /\ result'.op = "add_list_item" =>
             fragments' = Append(fragments, LI_OPEN \o result'.text \o LI_CLOSE)
    ]_vars

\* C32 witness: an item with the empty text has been appended to a list that
\* follows a paragraph with the empty text.
C32_Witness ==
  /\ result.op = "add_list_item"
  /\ Succeeded(result)
  /\ result.text = EmptyStr
  /\ fragments = << P_OPEN \o P_CLOSE, UL_OPEN, LI_OPEN \o LI_CLOSE >>

\* C33: a call that fails with RuntimeError or ValueError leaves the two
\* lifecycle flags, the fragments, the list flag and the two titles as they
\* were; the fragments change only in start_document or in a call that
\* succeeds on an open document.
C33_RejectedChangesNothing ==
  /\ [][ result'.exc \in { "RuntimeError", "ValueError" } =>
           /\ doc_started' = doc_started
           /\ doc_ended' = doc_ended
           /\ fragments' = fragments
           /\ list_open' = list_open
           /\ explicit_title' = explicit_title
           /\ first_h1_title' = first_h1_title ]_vars
  /\ [][ fragments' # fragments =>
           \/ result'.op = "start_document"
           \/ Succeeded(result') /\ Open ]_vars

\* C33 witness: a heading of level 7 has been refused on an open list that
\* holds an item; the list is still open and nothing was appended.
C33_Witness ==
  /\ result.op = "add_heading"
  /\ result.level = MaxLevel + 1
  /\ Failed(result, "ValueError", MSG_LEVEL)
  /\ result.pre.list_open
  /\ list_open
  /\ Len(fragments) = 2
  /\ fragments[1] = UL_OPEN
  /\ IsItemFragment(fragments[2])

\* ------------------------------------------------- properties of a parse run
\* The operations parse_lines has called, in order.
CallOps == [ k \in 1..Len(calls) |-> calls[k].op ]
\* The positions of the log that hold a call of op.
CallsOf(op) == { k \in 1..Len(calls) : calls[k].op = op }
\* parse_lines has returned or has been left by an exception.
RunOver == pc \in { "done", "raised" }
\* Every input line is empty once stripped.
OnlyBlankLines ==
  \A k \in 1..Len(lines) : strip(rstrip_newline(lines[k])) = EmptyStr

\* C15: whatever the input lines, the first call parse_lines makes to the
\* assembler is start_document(title=None) and it makes no other
\* start_document; once the run is over its last call is end_document(), made
\* once and successful; for an input with no line, or only blank lines, these
\* are the only two calls and the body is the empty string.
C15_StartFirstEndLast ==
  /\ pc # "idle" =>
       /\ CallsOf("start_document") = { 1 }
       /\ calls[1].title = None
  /\ CallsOf("end_document") \subseteq { Len(calls) }
  /\ RunOver =>
       /\ calls[Len(calls)].op = "end_document"
       /\ Succeeded(calls[Len(calls)])
  /\ (RunOver /\ OnlyBlankLines) =>
       /\ CallOps = << "start_document", "end_document" >>
       /\ Join(fragments) = EmptyStr

\* C15 witness: a run over three blank lines, one of them of spaces, is over.
C15_Witness ==
  /\ pc = "done"
  /\ Len(lines) = 3
  /\ OnlyBlankLines
  /\ \E k \in 1..Len(lines) : lines[k] # EmptyStr
  /\ Len(calls) = 2

\* Line k of the input is a list-item line: not blank, no heading, and a
\* match of the list pattern.
IsItemLine(l) ==
  /\ strip(rstrip_newline(l)) # EmptyStr
  /\ ~IsHeading(lstrip(rstrip_newline(l)))
  /\ IsListItem(lstrip(rstrip_newline(l)))
\* The first lines of the maximal runs of consecutive list-item lines.
RunStarts ==
  { k \in 1..Len(lines) :
      IsItemLine(lines[k]) /\ (k = 1 \/ ~IsItemLine(lines[k - 1])) }
\* The text of each list-item line, rendered, in the order of the lines.
RECURSIVE ItemTexts(_)
ItemTexts(ls) ==
  IF ls = << >> THEN << >>
  ELSE (IF IsItemLine(Head(ls))
        THEN << self_inline_renderer(ListItemText(lstrip(rstrip_newline(Head(ls))))) >>
        ELSE << >>) \o ItemTexts(Tail(ls))
\* The texts of the add_list_item calls of a log, in order.
RECURSIVE ItemCalls(_)
ItemCalls(log) ==
  IF log = << >> THEN << >>
  ELSE (IF Head(log).op = "add_list_item" THEN << Head(log).text >> ELSE << >>)
         \o ItemCalls(Tail(log))

ExampleText ==
  << "-", " ", "a", "\n", "-", " ", "b", "\n", "\n", "a", "f", "t",
     "e", "r", "\n" >>
ExampleBody ==
  << "<", "u", "l", ">", "\n", "<", "l", "i", ">", "a", "<", "/", "l",
     "i", ">", "\n", "<", "l", "i", ">", "b", "<", "/", "l", "i", ">",
     "\n", "<", "/", "u", "l", ">", "\n", "<", "p", ">", "a", "f", "t",
     "e", "r", "<", "/", "p", ">", "\n" >>

\* C16: in a finished run, each maximal run of consecutive list-item lines is
\* one list: start_list is called once per run and directly before an
\* add_list_item (no list is empty), add_list_item once per item line with the
\* lines' texts in order, and each item is followed by another item or by the
\* one end_list of its list, before any other block; the text
\* '- a\n- b\n\nafter\n' yields '<ul>\n<li>a</li>\n<li>b</li>\n</ul>\n<p>after</p>\n'.
C16_OneListPerRun ==
  RunOver =>
    /\ Cardinality(CallsOf("start_list")) = Cardinality(RunStarts)
    /\ Cardinality(CallsOf("end_list")) = Cardinality(RunStarts)
    /\ ItemCalls(calls) = ItemTexts(lines)
    /\ \A k \in CallsOf("start_list") :
         k < Len(calls) /\ calls[k + 1].op = "add_list_item"
    /\ \A k \in CallsOf("add_list_item") :
         /\ calls[k - 1].op \in { "start_list", "add_list_item" }
         /\ k < Len(calls)
         /\ calls[k + 1].op \in { "add_list_item", "end_list" }
    /\ \A k \in CallsOf("end_list") : calls[k - 1].op = "add_list_item"
    /\ ListScan(fragments, FALSE) = "closed"
    /\ (lines = splitlines(ExampleText) /\ inline_renderer = "render_inline") =>
         Join(fragments) = ExampleBody

\* C16 witness: the run over '- a\n- b\n\nafter\n' is finished; its two items
\* made one list, closed at the blank line.
C16_Witness ==
  /\ pc = "done"
  /\ lines = splitlines(ExampleText)
  /\ Len(lines) = 4
  /\ CallOps = << "start_document", "start_list", "add_list_item",
                  "add_list_item", "end_list", "add_paragraph", "end_document" >>

\* The precondition of a call of the assembler, in the state it was issued in.
Precondition(c) ==
  \/ c.op = "start_document"
  \/ /\ c.pre.started
     /\ ~c.pre.ended
     /\ c.op = "start_list" => ~c.pre.list_open
     /\ c.op \in { "add_list_item", "end_list" } => c.pre.list_open
     /\ c.op = "add_heading" => c.level \in MinLevel..MaxLevel

\* C17: whatever the input lines, a run of parse_lines over a fresh
\* StandardHtmlBuilder with the default inline renderer is never left by an
\* exception: every call it makes to the assembler is issued in a state that
\* satisfies the call's precondition, and none raises RuntimeError or
\* ValueError.
C17_NoErrorFromParse ==
  /\ pc # "raised"
  /\ \A k \in 1..Len(calls) : Precondition(calls[k]) /\ Succeeded(calls[k])

\* C17 witness: a finished run over a level-6 heading and a line of seven '#',
\* which was added as a paragraph.
C17_Witness ==
  /\ pc = "done"
  /\ \E k \in 1..Len(calls) :
       calls[k].op = "add_heading" /\ calls[k].level = MaxLevel
  /\ \E k \in 1..Len(calls) :
       /\ calls[k].op = "add_paragraph"
       /\ LeadingHashes(calls[k].text) = MaxHashes + 1

\* The view of an input line: without its line end and its indentation.
ViewOf(l) == lstrip(rstrip_newline(l))
\* This step of a run makes a call to the assembler.
CallStep == calls' # calls
\* This step of a run goes on to the next line.
LineDone == line_no' # line_no

\* C23: a call of add_heading made at a line carries the number of leading
\* '#' of the line's view as its level, and that number is in 1..6; at a line
\* whose view begins with seven or more '#' the run calls no add_heading: it
\* closes an open list and then adds the line as a paragraph.
C23_HeadingLevel ==
  /\ [](\A k \in CallsOf("add_heading") : calls[k].level \in MinLevel..MaxLevel)
  /\ [][ AtLine =>
           /\ (CallStep /\ result'.op = "add_heading") =>
                /\ result'.level = LeadingHashes(ViewOf(lines[line_no]))
                /\ result'.level \in 1..6
           /\ LeadingHashes(ViewOf(lines[line_no])) >= 7 =>
                /\ CallStep
                /\ result'.op \in { "end_list", "add_paragraph" }
                /\ LineDone =>
                     /\ result'.op = "add_paragraph"
                     /\ result'.text = self_inline_renderer(strip(ViewOf(lines[line_no])))
       ]_vars

\* C23 witness: a heading of the last level has just been added, after an
\* indented line of seven '#' went in as a paragraph.
C23_Witness ==
  /\ pc = "loop"
  /\ result.op = "add_heading"
  /\ result.level = MaxLevel
  /\ \E k \in 1..Len(lines) :
       /\ k < line_no
       /\ lines[k] # ViewOf(lines[k])
       /\ LeadingHashes(ViewOf(lines[k])) = MaxLevel + 1

\* The view is a marker (one to six '#', or one bullet) followed by whitespace
\* and nothing else.
MarkerOnly(view) ==
  /\ Len(rstrip(view)) < Len(view)
  /\ \/ /\ LeadingHashes(rstrip(view)) = Len(rstrip(view))
        /\ Len(rstrip(view)) \in MinHashes..MaxHashes
     \/ /\ Len(rstrip(view)) = 1
        /\ rstrip(view)[1] \in Bullets

\* C24: a non-blank line that is only a marker followed by whitespace, with no
\* text after it, is added as a paragraph, not as a heading or a list item;
\* so no add_heading and no add_list_item is called with the empty text.
C24_MarkerNeedsText ==
  /\ [](\A k \in 1..Len(calls) :
          calls[k].op \in { "add_heading", "add_list_item" } =>
            calls[k].text # EmptyStr)
  /\ [][ (AtLine /\ MarkerOnly(ViewOf(lines[line_no])) /\ CallStep) =>
           result'.op \in { "end_list", "add_paragraph" } ]_vars

\* The line holds nothing but whitespace.
OnlyWhitespace(l) == \A k \in 1..Len(l) : l[k] \in Whitespace

\* C25: at a line of nothing but whitespace the run calls end_list, and only
\* that, if a list is open, and makes no call otherwise; either way the line
\* is done and no list is open after it, so further blank lines close nothing;
\* and two item lines with a blank line between them end up in two lists.
C25_BlankLines ==
  /\ [][ (AtLine /\ OnlyWhitespace(lines[line_no])) =>
           /\ LineDone
           /\ ~in_list'
           /\ IF in_list
              THEN /\ calls' = Append(calls, result')
                   /\ result'.op = "end_list"
                   /\ fragments' = Append(fragments, UL_CLOSE)
              ELSE UNCHANGED << calls, builder >> ]_vars
  /\ [](RunOver =>
         \A k \in 1..(Len(lines) - 2) :
           ( /\ IsItemLine(lines[k])
             /\ OnlyWhitespace(lines[k + 1])
             /\ IsItemLine(lines[k + 2]) ) =>
               /\ Cardinality(CallsOf("start_list")) >= 2
               /\ Count(fragments, UL_OPEN) >= 2
               /\ Count(fragments, UL_CLOSE) = Count(fragments, UL_OPEN))

\* C25 witness: the run over an item, a line of spaces and another item is
\* finished with two lists closed.
C25_Witness ==
  /\ pc = "done"
  /\ Len(lines) = 3
  /\ IsItemLine(lines[1])
  /\ OnlyWhitespace(lines[2]) /\ lines[2] # EmptyStr
  /\ IsItemLine(lines[3])
  /\ Cardinality(CallsOf("end_list")) = 2

\* The block operations of the assembler.
BlockOps == { "add_heading", "add_list_item", "add_paragraph" }
\* The block calls of a log, in order.
RECURSIVE BlockCalls(_)
BlockCalls(log) ==
  IF log = << >> THEN << >>
  ELSE (IF Head(log).op \in BlockOps THEN << Head(log).op >> ELSE << >>)
         \o BlockCalls(Tail(log))
\* The block a line is: none for a blank line, else the first of heading, list
\* item and paragraph whose test the view passes.
ClassOf(l) ==
  IF OnlyWhitespace(l) THEN "blank"
  ELSE IF IsHeading(ViewOf(l)) THEN "add_heading"
  ELSE IF IsListItem(ViewOf(l)) THEN "add_list_item"
  ELSE "add_paragraph"
\* The blocks of the non-blank lines, in order.
RECURSIVE Classes(_)
Classes(ls) ==
  IF ls = << >> THEN << >>
  ELSE (IF ClassOf(Head(ls)) = "blank" THEN << >> ELSE << ClassOf(Head(ls)) >>)
         \o Classes(Tail(ls))

\* C26: in a finished run every non-blank line has made exactly one block
\* call, the one of its class (blank, else heading, else list item, else
\* paragraph), in the order of the lines, and blank lines none; '#a', '*a* b'
\* and '-' are paragraphs.
C26_OneHandlerPerLine ==
  /\ ClassOf(<< "#", "a" >>) = "add_paragraph"
  /\ ClassOf(<< "*", "a", "*", " ", "b" >>) = "add_paragraph"
  /\ ClassOf(<< "-" >>) = "add_paragraph"
  /\ RunOver => BlockCalls(calls) = Classes(lines)

\* C26 witness: the run over '#a', '*a* b' and '-' is finished with three
\* paragraphs.
C26_Witness ==
  /\ pc = "done"
  /\ lines = << << "#", "a" >>, << "*", "a", "*", " ", "b" >>, << "-" >> >>
  /\ BlockCalls(calls) = << "add_paragraph", "add_paragraph", "add_paragraph" >>
  /\ Len(fragments) = 3

\* The block of a line that has no indentation, tested on the line itself.
ClassBare(b) ==
  IF rstrip_newline(b) = << >> THEN "blank"
  ELSE IF IsHeading(rstrip_newline(b)) THEN "add_heading"
  ELSE IF IsListItem(rstrip_newline(b)) THEN "add_list_item"
  ELSE "add_paragraph"
\* The text of a line that has no indentation: what follows the marker and
\* its whitespace, or the whole line of a paragraph.
TextBare(b) ==
  IF ClassBare(b) = "add_heading" THEN HeadingText(rstrip_newline(b))
  ELSE IF ClassBare(b) = "add_list_item" THEN ListItemText(rstrip_newline(b))
  ELSE strip(rstrip_newline(b))
\* s neither begins nor ends with whitespace.
Trimmed(s) == s = << >> \/ (s[1] \notin Whitespace /\ s[Len(s)] \notin Whitespace)

\* C27: the block call made at a line is the one of the same line without its
\* leading whitespace, and its text is the rendering of that line's text,
\* which neither begins nor ends with whitespace.
C27_IndentationTolerated ==
  [][ (AtLine /\ CallStep /\ result'.op \in BlockOps) =>
        /\ result'.op = ClassBare(lstrip(lines[line_no]))
        /\ result'.text = self_inline_renderer(TextBare(lstrip(lines[line_no])))
        /\ Trimmed(TextBare(lstrip(lines[line_no])))
        /\ Trimmed(result'.text) ]_vars

\* C27 witness: the indented lines ' - a' and '  ## b' have been added as the
\* list item 'a' and the heading 'b' of level 2.
C27_Witness ==
  /\ pc = "loop"
  /\ line_no = 3
  /\ lines[1] = << " ", "-", " ", "a", "\n" >>
  /\ lines[2] = << " ", " ", "#", "#", " ", "b" >>
  /\ result.op = "add_heading"
  /\ result.level = 2
  /\ result.text = << "b" >>
  /\ \E k \in CallsOf("add_list_item") : calls[k].text = << "a" >>

\* One application of the renderer of that name to t.
Applied(name, t) ==
  IF name = "bracket" THEN << "[" >> \o t \o << "]" >> ELSE render_inline(t)

C28_DefaultWitness ==
  /\ inline_renderer = "render_inline"
  /\ result.op = "add_list_item"
  /\ result.text = << "<", "e", "m", ">", "b", "<", "/", "e", "m", ">" >>

\* The heading, list-item and paragraph fragments of a fragment list, in order.
RECURSIVE BlockFragments(_)
BlockFragments(frags) ==
  IF frags = << >> THEN << >>
  ELSE (IF Head(frags) \in { UL_OPEN, UL_CLOSE } THEN << >> ELSE << Head(frags) >>)
         \o BlockFragments(Tail(frags))
\* The fragment of a non-blank line: its class decides the element, the
\* rendering of its text is the content.
FragmentOf(l) ==
  LET bare == lstrip(l)
      text == Applied(inline_renderer, TextBare(bare))
  IN  IF ClassBare(bare) = "add_heading"
        THEN << "<", "h" >> \o IntToStr(LeadingHashes(bare)) \o << ">" >> \o text
               \o << "<", "/", "h" >> \o IntToStr(LeadingHashes(bare)) \o << ">", "\n" >>
      ELSE IF ClassBare(bare) = "add_list_item" THEN LI_OPEN \o text \o LI_CLOSE
      ELSE P_OPEN \o text \o P_CLOSE
\* The fragments of the non-blank lines, in order.
RECURSIVE FragmentsOf(_)
FragmentsOf(ls) ==
  IF ls = << >> THEN << >>
  ELSE (IF OnlyWhitespace(Head(ls)) THEN << >> ELSE << FragmentOf(Head(ls)) >>)
         \o FragmentsOf(Tail(ls))

\* C34: in a finished run the heading, list-item and paragraph fragments of
\* the body are the fragments of the non-blank input lines, one for one and in
\* the order of the lines.
C34_OneFragmentPerLine ==
  RunOver => BlockFragments(fragments) = FragmentsOf(lines)

\* C34 witness: the run over '*a* b', a blank line and '- a' is finished; the
\* body holds the paragraph and then the item.
C34_Witness ==
  /\ pc = "done"
  /\ inline_renderer = "render_inline"
  /\ lines = << << "*", "a", "*", " ", "b" >>, << " ", " " >>, << "-", " ", "a" >> >>
  /\ fragments = << P_OPEN \o EM_OPEN \o << "a" >> \o EM_CLOSE \o << " ", "b" >> \o P_CLOSE,
                    UL_OPEN, LI_OPEN \o << "a" >> \o LI_CLOSE, UL_CLOSE >>

\* What a run has done so far: the calls it has made and the lines it has
\* passed.
Progress == Len(calls) + line_no
\* The most a run over these lines does: start_document, two calls at each
\* line, end_list and end_document after the last one, and a pass over each line.
MostProgress == 3 * Len(lines) + 4

\* C35: a run makes a single pass: every step of the loop goes on in the run
\* (one more call, or the next line) and never back, within a bound fixed by
\* the number of lines, so the run ends; when parse_lines has returned every
\* line has been passed, the document is Ended with the list flag clear,
\* in_list is False, and the '<ul>\n' and '</ul>\n' of the body pair up.
C35_SinglePassEndsSealed ==
  /\ [][ pc = "loop" =>
           /\ line_no' \in { line_no, line_no + 1 }
           /\ Progress' > Progress
           /\ pc' \in { "loop", "done", "raised" }
           /\ lines' = lines ]_vars
  /\ [](pc = "loop" => (line_no <= Len(lines) + 1 /\ Progress <= MostProgress))
  /\ [](pc = "done" =>
          /\ line_no = Len(lines) + 1
          /\ Ended
          /\ ~list_open
          /\ ~in_list
          /\ ListScan(fragments, FALSE) = "closed"
          /\ Count(fragments, UL_CLOSE) = Count(fragments, UL_OPEN))

\* C35 witness: parse_lines has returned from a run over three lines whose
\* last line is a list item; the list was closed by the run after the last
\* line.
C35_Witness ==
  /\ pc = "done"
  /\ Len(lines) = 3
  /\ IsItemLine(lines[3])
  /\ Len(calls) >= 2
  /\ calls[Len(calls) - 1].op = "end_list"
  /\ fragments[Len(fragments)] = UL_CLOSE
  /\ Ended

\* This step is the entry of a run of parse_lines.
RunStart == pc # "loop" /\ pc' = "loop"
\* The run was left by an exception of the renderer: no call of the assembler
\* failed.
RendererAborted == pc = "raised" /\ \A k \in 1..Len(calls) : Succeeded(calls[k])

\* C36: every run of parse_lines starts with in_list False, whatever became
\* of the run before it on the same Diretor, and the block calls a run has
\* made when it is over are those of its own lines: no call to the assembler
\* fails, and a run the renderer has not left returns.
C36_RunsIndependent ==
  /\ [][ RunStart => ~in_list' ]_vars
  /\ [](\A k \in 1..Len(calls) : Succeeded(calls[k]))
  /\ [](pc = "done" => BlockCalls(calls) = Classes(lines))

\* The same for a run that follows a run that has returned, or none.
C36_AfterReturn ==
  [][ (RunStart /\ pc \in { "idle", "done" }) => ~in_list' ]_vars

\* The second item of a list has made the strict renderer raise; the run is
\* left with in_list True and the list open.
C36_AbortedInList ==
  /\ RendererAborted
  /\ in_list
  /\ list_open
  /\ lines = << << "-", " ", "a" >>, << "-", " " >> >>

\* After such a run, a run over the one line '- a' has failed in
\* add_list_item with "no open list to add item".
C36_StaleFlag ==
  /\ pc = "raised"
  /\ lines = << << "-", " ", "a" >> >>
  /\ CallOps = << "start_document", "add_list_item" >>
  /\ Failed(result, "RuntimeError", MSG_NO_LIST_ITEM)
  /\ in_list
  /\ fragments = << >>

\* C37: at the entry of a run and after every line of it, Diretor.in_list
\* equals the list flag of the assembler.
C37_FlagsMirror ==
  [][ (RunStart \/ (pc = "loop" /\ LineDone)) => in_list' = list_open' ]_vars

\* A line that is reached with the two flags equal is left with them equal.
C37_MirrorKept ==
  [][ (pc = "loop" /\ in_list = list_open) => in_list' = list_open' ]_vars

\* A run has been entered with in_list True on an assembler that
\* start_document has just reset: the flags differ before the first line.
C37_FlagsDiffer ==
  /\ pc = "loop"
  /\ line_no = 1
  /\ Len(lines) >= 1
  /\ result.op = "start_document"
  /\ in_list
  /\ ~list_open

\* The operations of the assembler that close an open list on their own.
AutoClosing == { "add_heading", "add_paragraph", "end_document" }

\* C38: every add_heading, add_paragraph and end_document call of a run
\* reaches the assembler with its list flag clear and appends no '</ul>\n';
\* none of them directly follows an add_list_item; the '</ul>\n' of the body
\* are as many as the end_list calls of the run.
C38_AutoCloseNeverTaken ==
  /\ [][ (CallStep /\ result'.op \in AutoClosing) =>
           /\ ~list_open
           /\ Count(fragments', UL_CLOSE) = Count(fragments, UL_CLOSE) ]_vars
  /\ [](\A k \in 1..Len(calls) :
          calls[k].op \in AutoClosing =>
            /\ ~calls[k].pre.list_open
            /\ k > 1 => calls[k - 1].op # "add_list_item")
  /\ [](pc # "idle" =>
          Count(fragments, UL_CLOSE) =
            Cardinality({ k \in CallsOf("end_list") : Succeeded(calls[k]) }))

\* C38 witness: a heading has followed a list item; the run called end_list
\* before add_heading, which found no list open.
C38_Witness ==
  /\ result.op = "add_heading"
  /\ Succeeded(result)
  /\ ~result.pre.list_open
  /\ Len(calls) >= 3
  /\ calls[Len(calls) - 1].op = "end_list"
  /\ calls[Len(calls) - 2].op = "add_list_item"
  /\ Count(fragments, UL_CLOSE) = 1

\* ------------------------------------------------------- calls of render_inline
\* The pieces a text is made of: runs of one, two and three asterisks, a
\* letter, a backslash, the three characters that are escaped, and the seven
\* characters "\x01B_OPEN\x02".
Pieces ==
  { Stars(1), Stars(2), Stars(3), << "a" >>, << "\\" >>,
    << "&" >>, << "<" >>, << ">" >>, DB_OPEN }

RECURSIVE PieceTexts(_)
PieceTexts(n) ==
  IF n = 0 THEN { EmptyStr }
  ELSE PieceTexts(n - 1) \cup { t \o q : t \in PieceTexts(n - 1), q \in Pieces }

\* A span: a text between two runs of n asterisks.
Span(n, t) == Stars(n) \o t \o Stars(n)
SpanTexts == { << "a" >>, << "<" >>, << "a", "&" >> }
\* Two spans on one line, a space between them.
TwoSpans ==
  { Span(n1, t1) \o << " " >> \o Span(n2, t2) :
      n1 \in 1..3, n2 \in 1..3, t1 \in SpanTexts, t2 \in SpanTexts }

InlineInputs == PieceTexts(MaxPieces) \cup TwoSpans

\* An argument has been chosen; render_inline has not been called yet.
InlineStart ==
  /\ doc_started = FALSE
  /\ doc_ended = FALSE
  /\ fragments = << >>
  /\ list_open = FALSE
  /\ explicit_title = None
  /\ first_h1_title = None
  /\ result = Call("init", EmptyStr, 0, None)
  /\ pc = "idle"
  /\ lines = << >>
  /\ line_no = 0
  /\ in_list = FALSE
  /\ inline_renderer = "render_inline"
  /\ calls = << >>
  /\ inline_text \in InlineInputs
  /\ inline_html = None
  /\ cli = NoRun

\* A render_inline that raises for the empty text: the call yields no string
\* but the exception.
call_render_inline_rejects_empty ==
  /\ inline_html = None
  /\ inline_html' = IF inline_text = EmptyStr THEN << "raised", "ValueError" >>
                    ELSE Some(render_inline(inline_text))
  /\ UNCHANGED << builder, result, diretor, inline_text, cli >>

\* The call render_inline(inline_text) returns.
call_render_inline ==
  /\ inline_html = None
  /\ inline_html' = Some(render_inline(inline_text))
  /\ UNCHANGED << builder, result, diretor, inline_text, cli >>

InlineNext == call_render_inline

SpecInline == InlineStart /\ [][InlineNext]_vars

\* ----------------------------------------------- properties of render_inline
\* The escaping of one character, and of a text character by character.
EscChar(ch) ==
  IF ch = "&" THEN AMP_ENTITY
  ELSE IF ch = "<" THEN LT_ENTITY
  ELSE IF ch = ">" THEN GT_ENTITY
  ELSE << ch >>
RECURSIVE Esc(_)
Esc(t) == IF t = EmptyStr THEN EmptyStr ELSE EscChar(Head(t)) \o Esc(Tail(t))

\* The tags of a span of n asterisks.
OpenTag(n) == IF n = 3 THEN STRONG_EM_OPEN ELSE IF n = 2 THEN STRONG_OPEN ELSE EM_OPEN
CloseTag(n) == IF n = 3 THEN STRONG_EM_CLOSE ELSE IF n = 2 THEN STRONG_CLOSE ELSE EM_CLOSE
\* What a span is rendered as.
Rendered(n, t) == OpenTag(n) \o Esc(t) \o CloseTag(n)

\* t is not empty and has no asterisk, no backslash and no line break.
PlainText(t) ==
  /\ t # EmptyStr
  /\ \A k \in 1..Len(t) : t[k] \notin { "*", "\\", "\n" }

\* The text between the first n and the last n characters of s.
Inner(s, n) == SubSeq(s, n + 1, Len(s) - n)
\* s is a span of n asterisks around a plain text.
IsSpan(s, n) ==
  /\ Len(s) > 2 * n
  /\ s = Span(n, Inner(s, n))
  /\ PlainText(Inner(s, n))

\* C18: for every non-empty text t without asterisk, backslash and line
\* break, render_inline of t between two runs of three, two and one asterisks is
\* esc(t) between <strong><em> and </em></strong>, <strong> and </strong>,
\* <em> and </em>; two such spans on one line are each rendered so.
C18_EmphasisResolved ==
  inline_html # None =>
    /\ \A n \in 1..3 :
         IsSpan(inline_text, n) => inline_html = Some(Rendered(n, Inner(inline_text, n)))
    /\ \A n1 \in 1..3, n2 \in 1..3, t1 \in SpanTexts, t2 \in SpanTexts :
         inline_text = Span(n1, t1) \o << " " >> \o Span(n2, t2) =>
           inline_html = Some(Rendered(n1, t1) \o << " " >> \o Rendered(n2, t2))

\* How often the character ch occurs in s.
CountChar(s, ch) == Cardinality({ k \in 1..Len(s) : s[k] = ch })
\* How often the string p occurs in s.
CountOf(s, p) == Cardinality(Occurrences(p, s, 1))
\* The four tags of emphasis.
EmphasisTags == { STRONG_OPEN, STRONG_CLOSE, EM_OPEN, EM_CLOSE }

\* The escaping of a returned text: it has one entity for each '&', '<' and
\* '>' of the input and no other '&'; each raw '<' opens and each raw '>'
\* closes one of the tags <strong>, </strong>, <em>, </em>; and those tags are
\* the ones made for the spans, an opening and a closing one for each, so that
\* a text without an asterisk yields no raw '<' and no raw '>'.
EscapedOnce(text, html) ==
  /\ CountChar(text, "*") = 0 => CountChar(html, "<") = 0 /\ CountChar(html, ">") = 0
  /\ CountOf(html, AMP_ENTITY) = CountChar(text, "&")
  /\ CountOf(html, LT_ENTITY) = CountChar(text, "<")
  /\ CountOf(html, GT_ENTITY) = CountChar(text, ">")
  /\ CountChar(html, "&")
       = CountChar(text, "&") + CountChar(text, "<") + CountChar(text, ">")
  /\ \A k \in 1..Len(html) :
       /\ html[k] = "<" => \E tag \in EmphasisTags : StartsAt(html, k, tag)
       /\ html[k] = ">" =>
            \E tag \in EmphasisTags :
              k >= Len(tag) /\ StartsAt(html, k - Len(tag) + 1, tag)
  /\ CountOf(html, STRONG_OPEN) = CountOf(html, STRONG_CLOSE)
  /\ CountOf(html, EM_OPEN) = CountOf(html, EM_CLOSE)

\* C19: for every input, render_inline emits each '&', '<', '>' of the input
\* as '&amp;', '&lt;', '&gt;' and the tags of emphasis unescaped: a raw '<' or
\* '>' of the output belongs to a <strong> or <em> tag made for a span, and
\* nothing is escaped twice.
C19_EscapedOnce ==
  inline_html # None => EscapedOnce(inline_text, inline_html[1])

\* A letter that no input holds.
Mark == << "x" >>
\* The text with each backslash-asterisk replaced by the letter.
Marked(text) == Replace(text, << "\\", "*" >>, Mark)

\* C20: every backslash-asterisk of the input is rendered as an ordinary
\* character would be in its place, and shows as one '*' without the backslash:
\* the output is the output for the input with a letter in place of each
\* backslash-asterisk, with '*' in place of that letter; so it opens and closes
\* no span, whatever markers surround it.
C20_EscapedAsteriskIsLiteral ==
  inline_html # None =>
    inline_html[1] = Replace(render_inline(Marked(inline_text)), Mark, << "*" >>)

\* C20 witness: '*\**' has been rendered: the escaped asterisk is the text of
\* the span its neighbours make.
C20_Witness ==
  /\ inline_text = << "*", "\\", "*", "*" >>
  /\ inline_html = Some(EM_OPEN \o << "*" >> \o EM_CLOSE)

\* C21: render_inline is total: whatever the text, the step of a call is its
\* return and never an error, what it returns is a string, and for the empty
\* text it is the empty string.
C21_RenderInlineTotal ==
  /\ [][inline_html = None => inline_html' # None /\ Len(inline_html') = 1]_vars
  /\ [](inline_html # None =>
         /\ Len(inline_html) = 1
         /\ \A k \in 1..Len(inline_html[1]) : inline_html[1][k] \in STRING
         /\ inline_text = EmptyStr => inline_html[1] = EmptyStr)

\* C21 witness: the call with the empty text has returned the empty string.
C21_Witness ==
  /\ inline_text = EmptyStr
  /\ inline_html = Some(EmptyStr)

\* The emphasis tags of s from position i on close in the reverse of the order
\* they opened in, given the stack of tags open before i (its top is last), and
\* none is left open.
RECURSIVE NestedFrom(_, _, _)
NestedFrom(s, i, open) ==
  IF i > Len(s) THEN open = << >>
  ELSE IF StartsAt(s, i, STRONG_OPEN)
    THEN NestedFrom(s, i + Len(STRONG_OPEN), Append(open, "strong"))
  ELSE IF StartsAt(s, i, EM_OPEN)
    THEN NestedFrom(s, i + Len(EM_OPEN), Append(open, "em"))
  ELSE IF StartsAt(s, i, STRONG_CLOSE)
    THEN /\ open # << >>
         /\ open[Len(open)] = "strong"
         /\ NestedFrom(s, i + Len(STRONG_CLOSE), SubSeq(open, 1, Len(open) - 1))
  ELSE IF StartsAt(s, i, EM_CLOSE)
    THEN /\ open # << >>
         /\ open[Len(open)] = "em"
         /\ NestedFrom(s, i + Len(EM_CLOSE), SubSeq(open, 1, Len(open) - 1))
  ELSE NestedFrom(s, i + 1, open)
Nested(s) == NestedFrom(s, 1, << >>)

\* C29: for every input, the <strong> and <em> tags of the output of
\* render_inline are properly nested: a closing tag closes the tag opened
\* last, and no tag is left open.
C29_ProperlyNested ==
  inline_html # None => Nested(inline_html[1])

\* The same for the inputs made of asterisks and letters alone.
C29_NestedOfPlainStars ==
  (/\ inline_html # None
   /\ \A k \in 1..Len(inline_text) : inline_text[k] \in { "*", "a" }) =>
    Nested(inline_html[1])

\* render_inline('******') has returned '<strong><em></strong></em>'.
C29_SixStars ==
  /\ inline_text = Stars(3) \o Stars(3)
  /\ inline_html = Some(STRONG_OPEN \o EM_OPEN \o STRONG_CLOSE \o EM_CLOSE)

\* t holds one marker and nothing to close it: a single run of n asterisks,
\* among letters and the characters that are escaped.
LoneMarker(t, n) ==
  /\ CountChar(t, "*") = n
  /\ \E i \in 1..Len(t) : StartsAt(t, i, Stars(n))
  /\ \A k \in 1..Len(t) : t[k] \in { "*", "a", "&", "<", ">" }
\* The output for t has no emphasis tag and shows the asterisks of t as they are.
StaysLiteral(t, html) ==
  /\ \A tag \in EmphasisTags : CountOf(html, tag) = 0
  /\ html = Esc(t)

\* C30: for an input with one marker of one, two or three asterisks and no
\* other asterisk, render_inline returns a string without emphasis tags, in
\* which the asterisks appear as they are in the input.
C30_UnmatchedStaysLiteral ==
  \A n \in 1..3 :
    (inline_html # None /\ LoneMarker(inline_text, n)) =>
      /\ Len(inline_html) = 1
      /\ StaysLiteral(inline_text, inline_html[1])

\* The same for the markers of one and of two asterisks.
C30_LoneOneOrTwo ==
  \A n \in 1..2 :
    (inline_html # None /\ LoneMarker(inline_text, n)) =>
      /\ Len(inline_html) = 1
      /\ StaysLiteral(inline_text, inline_html[1])

\* render_inline('***a') has returned '<em>*</em>a'.
C30_ThreeStars ==
  /\ inline_text = Stars(3) \o << "a" >>
  /\ inline_html = Some(EM_OPEN \o << "*" >> \o EM_CLOSE \o << "a" >>)

\* render_inline('**a') has returned '**a'.
C30_TwoStars ==
  /\ inline_text = Stars(2) \o << "a" >>
  /\ inline_html = Some(inline_text)

\* ------------------------------------------------------- the command line
\* What the output file holds: what it held before the run, the converted
\* HTML of either mode, or what a write that failed half-way left.
OLD_CONTENT == "old content"
BODY_HTML == "body html"
FULL_HTML == "full page html"
BROKEN_CONTENT == "incomplete"

\* What is at the input path: nothing, a directory, a file.
InputKinds == { "missing", "directory", "file" }
\* build_from_file returns the HTML or raises.
ConvertOutcomes == { "ok", "raises" }
\* mkdir and write_text succeed; or one of them raises with the file as it
\* was; or write_text raises after it has opened, and so emptied, the file.
WriteOutcomes == { "ok", "refused", "broken" }

\* build_from_file(input_path, mode=mode), when it returns.
build_from_file(body) == IF body THEN BODY_HTML ELSE FULL_HTML

\* The arguments and the files of a run; main() has not been called yet.
MainStart ==
  /\ doc_started = FALSE
  /\ doc_ended = FALSE
  /\ fragments = << >>
  /\ list_open = FALSE
  /\ explicit_title = None
  /\ first_h1_title = None
  /\ result = Call("init", EmptyStr, 0, None)
  /\ pc = "idle"
  /\ lines = << >>
  /\ line_no = 0
  /\ in_list = FALSE
  /\ inline_renderer = "render_inline"
  /\ calls = << >>
  /\ inline_text = EmptyStr
  /\ inline_html = None
  /\ \E input \in InputKinds, before \in { None, Some(OLD_CONTENT) },
        force \in BOOLEAN, body \in BOOLEAN,
        convert \in ConvertOutcomes, write \in WriteOutcomes :
       cli = [ input |-> input, output_before |-> before, force |-> force,
               body |-> body, convert |-> convert, write |-> write,
               converted |-> FALSE, output |-> before, exit |-> None ]

\* main() that writes over an existing output file without --force.
main_overwrites ==
  /\ cli.exit = None
  /\ cli' =
       IF cli.input # "file" THEN [ cli EXCEPT !.exit = Some(1) ]
       ELSE IF cli.convert = "raises"
       THEN [ cli EXCEPT !.converted = TRUE, !.exit = Some(1) ]
       ELSE IF cli.write = "refused"
       THEN [ cli EXCEPT !.converted = TRUE, !.exit = Some(1) ]
       ELSE IF cli.write = "broken"
       THEN [ cli EXCEPT !.converted = TRUE, !.output = Some(BROKEN_CONTENT),
                         !.exit = Some(1) ]
       ELSE [ cli EXCEPT !.converted = TRUE,
                         !.output = Some(build_from_file(cli.body)),
                         !.exit = Some(0) ]
  /\ UNCHANGED << builder, result, diretor, inline >>

\* main(argv): the input check, the output check, the conversion, the write.
main ==
  /\ cli.exit = None
  /\ cli' =
       IF cli.input # "file" THEN [ cli EXCEPT !.exit = Some(1) ]
       ELSE IF cli.output_before # None /\ ~cli.force
       THEN [ cli EXCEPT !.exit = Some(1) ]
       ELSE IF cli.convert = "raises"
       THEN [ cli EXCEPT !.converted = TRUE, !.exit = Some(1) ]
       ELSE IF cli.write = "refused"
       THEN [ cli EXCEPT !.converted = TRUE, !.exit = Some(1) ]
       ELSE IF cli.write = "broken"
       THEN [ cli EXCEPT !.converted = TRUE, !.output = Some(BROKEN_CONTENT),
                         !.exit = Some(1) ]
       ELSE [ cli EXCEPT !.converted = TRUE,
                         !.output = Some(build_from_file(cli.body)),
                         !.exit = Some(0) ]
  /\ UNCHANGED << builder, result, diretor, inline >>

MainNext == main

SpecMain == MainStart /\ [][MainNext]_vars

\* ------------------------------------------------ properties of the command line
\* The output file is as it was before the run.
OutputUntouched == cli.output = cli.output_before

\* C22: main() returns 1, without converting and with the output file as it
\* was, when the input is no file and when the output exists and --force was
\* not given; an existing output file is never changed without --force; it
\* returns 1 when the conversion raises or the write fails; and it returns 0
\* only with the converted HTML in the output file.
C22_ExitCodes ==
  cli.exit # None =>
    /\ cli.exit \in { Some(0), Some(1) }
    /\ cli.input # "file" =>
         cli.exit = Some(1) /\ ~cli.converted /\ OutputUntouched
    /\ (cli.output_before # None /\ ~cli.force) =>
         cli.exit = Some(1) /\ ~cli.converted /\ OutputUntouched
    /\ cli.convert = "raises" => cli.exit = Some(1) /\ OutputUntouched
    /\ cli.write # "ok" => cli.exit = Some(1)
    /\ cli.exit = Some(0) =>
         /\ cli.converted
         /\ cli.output = Some(build_from_file(cli.body))
         /\ cli.input = "file"
         /\ cli.output_before = None \/ cli.force

\* C22 witness: a run without --force on an existing output file has returned
\* 1, although the input is a file and conversion and write would succeed.
C22_Witness ==
  /\ cli.exit = Some(1)
  /\ cli.input = "file"
  /\ cli.output_before = Some(OLD_CONTENT)
  /\ ~cli.force
  /\ cli.convert = "ok"
  /\ cli.write = "ok"

====
